---------------------------- MODULE Spec2Model ----------------------------
(***************************************************************************)
(* Model of the Invariant repository (Sui Move contracts + TypeScript SDK). *)
(*                                                                         *)
(*   VaultSpec : move_contracts/sources/vault.move        (VaultLedger)    *)
(*   RiskSpec  : move_contracts/sources/risk_manager.move (RiskEngine)     *)
(*   OrchSpec  : sdk/src/ptb_builder.ts (src/unnamed/part_001), the         *)
(*               AtomicOrchestrator, with the services it calls            *)
(*                                                                         *)
(* vault.move does not import risk_manager: the two Move modules are       *)
(* independent state machines that share only the Sui Clock object.        *)
(*                                                                         *)
(* Numbers.  TLC's integers are 32 bit, so a u64 is modelled with the      *)
(* reduced range 0..U64_MAX where U64_MAX = floor((2^64-1) / 10^10):       *)
(* amounts are counted in units of 10^10 base units (MIST), which leaves   *)
(* every floor((b * 10000) / c) unchanged and makes x * 10000 overflow in   *)
(* the model exactly when it overflows a real u64.  Move aborts the        *)
(* transaction on arithmetic overflow; that outcome is status "arith".     *)
(***************************************************************************)
EXTENDS Integers, Sequences, FiniteSets, TLC

VARIABLES
    clock_ms,              \* sui::clock::Clock (object 0x6), milliseconds
    vaults,                \* shared Vault objects, by id
    vault_admin_cap_owner, \* address owning the VaultAdminCap
    vault_admin_caps,      \* number of VaultAdminCap objects in existence
    vault_events,          \* events emitted (event::emit) by the latest vault.move transaction
    vault_transfers,       \* coins the latest vault.move transaction transferred out
    vault_result,          \* outcome of the latest vault.move call
    risk_config,           \* the shared RiskConfig object
    risk_admin_cap_owner,  \* address owning the RiskAdminCap
    risk_admin_caps,       \* number of RiskAdminCap objects in existence
    risk_events,           \* events emitted by the latest risk_manager.move transaction
    risk_result,           \* outcome of the latest risk_manager.move call
    pool_configured,       \* DEEPBOOK_CONFIG[network].suiUsdcPoolId is a real pool id
    orch,                  \* the running build*AtomicHedgePTB call: its position and locals
    tx_cmds,               \* commands added to `tx` (new Transaction())
    txblock_cmds,          \* commands added to `txBlock` (scallopBuilder.createTxBlock())
    returned_tx,           \* commands of the Transaction the builder returned
    venue_position,        \* collateral locked, debt drawn and hedge open at the venues
    position_before,       \* venue_position when the attempt started
    deepbook_result,       \* outcome of the latest call of a deepbook_service.ts helper
    oracle_result,         \* outcome of the latest direct call of OracleService.validatePriceData
    builder                \* a PTBBuilder: its initialized flag and the async calls in flight on it

vars == << clock_ms, vaults, vault_admin_cap_owner, vault_admin_caps,
           vault_events, vault_transfers, vault_result,
           risk_config, risk_admin_cap_owner, risk_admin_caps, risk_events, risk_result,
           pool_configured, orch, tx_cmds, txblock_cmds, returned_tx,
           venue_position, position_before, deepbook_result, oracle_result, builder >>

orch_vars == << pool_configured, orch, tx_cmds, txblock_cmds, returned_tx,
                venue_position, position_before >>

vault_vars == << vaults, vault_admin_cap_owner, vault_admin_caps, vault_events, vault_transfers, vault_result >>

risk_vars == << risk_config, risk_admin_cap_owner, risk_admin_caps, risk_events, risk_result >>

(***************************************************************************)
(* Bounds of the model                                                     *)
(***************************************************************************)
\* largest value of a (scaled) u64
U64_MAX == 1844674407
\* the clock advances in steps of this many milliseconds ...
ClockStepMs == 30500
\* ... up to this value
MaxClockMs == 61000
\* collateral, debt and hedge size of a vault stay within these
MaxCollateral == 150
MaxDebt == 66
MaxHedge == 100
\* collateral locked at the lending venue stays within this (1/100 SUI)
MaxLocked == 200

Addresses == {"admin", "alice"}
\* the address that published the package (tx_context::sender in init)
Publisher == "admin"
VaultIds == {"v1"}
\* coin values offered to deposit, amounts offered to withdraw and to
\* record_borrow (184468 * 10000 exceeds U64_MAX)
DepositAmounts == {0, 50, 100}
WithdrawAmounts == {0, 50, 100, 200}
BorrowAmounts == {0, 32, 33, 184468}
HedgeSizes == {50, 100, U64_MAX}

(***************************************************************************)
(* u64 arithmetic (Move aborts on overflow and underflow)                  *)
(***************************************************************************)
MulOverflows(a, b) == b > 0 /\ a > U64_MAX \div b
AddOverflows(a, b) == a > U64_MAX - b

\* clock::timestamp_ms(clock) / 1000
Now == clock_ms \div 1000

(***************************************************************************)
(* vault.move                                                              *)
(***************************************************************************)
EDepositAmountZero == 1
EInsufficientBalance == 2
EUnauthorized == 3
EVaultPaused == 4
ELTVExceeded == 5
MAX_LTV_BPS == 6400
BPS_DENOMINATOR == 10000

NoVault ==
    [exists |-> FALSE, owner |-> "none", collateral_balance |-> 0,
     borrowed_amount |-> 0, hedge_position_size |-> 0, created_at |-> 0,
     last_updated |-> 0, is_paused |-> FALSE]

\* outcome records: status is "ok", "abort" (assert! with a code), "arith"
\* (arithmetic abort) or "rejected" (the transaction names an object the
\* sender does not own and never executes)
VaultCall(op, id, sender, amount, is_open, status, code) ==
    [op |-> op, vault_id |-> id, sender |-> sender, amount |-> amount,
     is_open |-> is_open, status |-> status, code |-> code]

NoVaultCall == VaultCall("none", "none", "none", 0, FALSE, "ok", 0)

VaultEvent(type, id, actor, amount, ltv_bps, is_open, timestamp) ==
    [type |-> type, vault_id |-> id, actor |-> actor, amount |-> amount,
     ltv_bps |-> ltv_bps, is_open |-> is_open, timestamp |-> timestamp]

VaultAdminCapsConstructedBy_CreateVaultMints(op) ==
    IF op \in {"init", "create_vault"} THEN 1 ELSE 0

\* the number of `VaultAdminCap { id: object::new(ctx) }` a function of
\* vault.move evaluates: one in init, none in any other function
VaultAdminCapsConstructedBy(op) == IF op = "init" THEN 1 ELSE 0

WithdrawRecipient_Publisher(sender) == Publisher

\* transfer::public_transfer(coin, tx_context::sender(ctx)) in withdraw
WithdrawRecipient(sender) == sender

\* the coins a committed call transfers out of the vault: withdraw sends the
\* amount split from collateral_balance, no other function transfers a coin
TransfersOf(op, sender, amount) ==
    IF op = "withdraw"
      THEN << [to |-> WithdrawRecipient(sender), amount |-> amount] >>
      ELSE << >>

\* an aborted (or rejected) transaction changes no object and emits nothing
VaultAborts(op, id, sender, amount, is_open, status, code) ==
    /\ vault_result' = VaultCall(op, id, sender, amount, is_open, status, code)
    /\ vault_events' = << >>
    /\ vault_transfers' = << >>
    /\ UNCHANGED << vaults, vault_admin_cap_owner, vault_admin_caps >>

VaultCommits(op, id, sender, amount, is_open, v, ev) ==
    /\ vaults' = [vaults EXCEPT ![id] = v]
    /\ vault_events' = << ev >>
    /\ vault_transfers' = TransfersOf(op, sender, amount)
    /\ vault_result' = VaultCall(op, id, sender, amount, is_open, "ok", 0)
    /\ vault_admin_caps' = vault_admin_caps + VaultAdminCapsConstructedBy(op)
    /\ UNCHANGED vault_admin_cap_owner

\* fun init: the VaultAdminCap is constructed and goes to the publisher
VaultInit ==
    /\ vaults = [id \in VaultIds |-> NoVault]
    /\ vault_admin_cap_owner = Publisher
    /\ vault_admin_caps = VaultAdminCapsConstructedBy("init")
    /\ vault_events = << >>
    /\ vault_transfers = << >>
    /\ vault_result = NoVaultCall

NewVault_NeverUpdated(sender, now) ==
    [exists |-> TRUE, owner |-> sender, collateral_balance |-> 0,
     borrowed_amount |-> 0, hedge_position_size |-> 0,
     created_at |-> now, last_updated |-> 0, is_paused |-> FALSE]

NewVault_OwnedByPublisher(sender, now) ==
    [exists |-> TRUE, owner |-> Publisher, collateral_balance |-> 0,
     borrowed_amount |-> 0, hedge_position_size |-> 0,
     created_at |-> now, last_updated |-> now, is_paused |-> FALSE]

\* the Vault create_vault builds: created_at and last_updated are both now
NewVault(sender, now) ==
    [exists |-> TRUE, owner |-> sender, collateral_balance |-> 0,
     borrowed_amount |-> 0, hedge_position_size |-> 0,
     created_at |-> now, last_updated |-> now, is_paused |-> FALSE]

create_vault(sender) ==
    \E id \in VaultIds :
        /\ ~vaults[id].exists
        /\ vaults' = [vaults EXCEPT ![id] = NewVault(sender, Now)]
        /\ vault_result' = VaultCall("create_vault", id, sender, 0, FALSE, "ok", 0)
        /\ vault_events' = << >>
        /\ vault_transfers' = TransfersOf("create_vault", sender, 0)
        /\ vault_admin_caps' = vault_admin_caps + VaultAdminCapsConstructedBy("create_vault")
        /\ UNCHANGED vault_admin_cap_owner

IsOwner_AnySender(v, sender) == TRUE

\* assert!(vault.owner == tx_context::sender(ctx), EUnauthorized)
IsOwner(v, sender) == v.owner = sender

NotPaused_Always(v) == TRUE

\* assert!(!vault.is_paused, EVaultPaused)
NotPaused(v) == ~v.is_paused

DepositAmountOk_Any(amount) == TRUE

\* assert!(amount > 0, EDepositAmountZero)
DepositAmountOk(amount) == amount > 0

deposit(id, sender, amount) ==
    LET v == vaults[id] IN
    /\ v.exists
    /\ IF ~NotPaused(v)
         THEN VaultAborts("deposit", id, sender, amount, FALSE, "abort", EVaultPaused)
       ELSE IF ~DepositAmountOk(amount)
         THEN VaultAborts("deposit", id, sender, amount, FALSE, "abort", EDepositAmountZero)
       ELSE /\ v.collateral_balance + amount <= MaxCollateral
            /\ VaultCommits("deposit", id, sender, amount, FALSE,
                   [v EXCEPT !.collateral_balance = @ + amount,
                             !.last_updated = Now],
                   VaultEvent("Deposit", id, sender, amount, 0, FALSE, Now))

WithdrawLtvOk_Unchecked(borrowed, remaining) == TRUE

\* the check withdraw makes when the vault has debt (vault.move 199-204)
WithdrawLtvOk(borrowed, remaining) ==
    borrowed > 0 => remaining > 0

WithdrawBalanceOk_Unchecked(amount, available) == TRUE

\* assert!(amount <= available, EInsufficientBalance)
WithdrawBalanceOk(amount, available) == amount <= available

withdraw(id, sender, amount) ==
    LET v == vaults[id]
        available == v.collateral_balance
        remaining == available - amount
    IN
    /\ v.exists
    /\ IF ~IsOwner(v, sender)
         THEN VaultAborts("withdraw", id, sender, amount, FALSE, "abort", EUnauthorized)
       ELSE IF ~NotPaused(v)
         THEN VaultAborts("withdraw", id, sender, amount, FALSE, "abort", EVaultPaused)
       ELSE IF ~WithdrawBalanceOk(amount, available)
         THEN VaultAborts("withdraw", id, sender, amount, FALSE, "abort", EInsufficientBalance)
       ELSE IF ~WithdrawLtvOk(v.borrowed_amount, remaining)
         THEN VaultAborts("withdraw", id, sender, amount, FALSE, "abort", ELTVExceeded)
       ELSE VaultCommits("withdraw", id, sender, amount, FALSE,
                [v EXCEPT !.collateral_balance = remaining,
                          !.last_updated = Now],
                VaultEvent("Withdraw", id, sender, amount, 0, FALSE, Now))

\* the LTV record_borrow computes (vault.move 238-244); the product is only
\* evaluated when collateral_value > 0
BorrowLtvBps(v, amount) ==
    IF v.collateral_balance > 0
      THEN (amount * BPS_DENOMINATOR) \div v.collateral_balance
      ELSE BPS_DENOMINATOR

record_borrow(id, sender, amount) ==
    LET v == vaults[id] IN
    /\ v.exists
    /\ IF ~IsOwner(v, sender)
         THEN VaultAborts("record_borrow", id, sender, amount, FALSE, "abort", EUnauthorized)
       ELSE IF ~NotPaused(v)
         THEN VaultAborts("record_borrow", id, sender, amount, FALSE, "abort", EVaultPaused)
       ELSE IF v.collateral_balance > 0 /\ MulOverflows(amount, BPS_DENOMINATOR)
         THEN VaultAborts("record_borrow", id, sender, amount, FALSE, "arith", 0)
       ELSE IF ~(BorrowLtvBps(v, amount) <= MAX_LTV_BPS)
         THEN VaultAborts("record_borrow", id, sender, amount, FALSE, "abort", ELTVExceeded)
       ELSE /\ v.borrowed_amount + amount <= MaxDebt
            /\ VaultCommits("record_borrow", id, sender, amount, FALSE,
                   [v EXCEPT !.borrowed_amount = @ + amount,
                             !.last_updated = Now],
                   VaultEvent("Borrow", id, sender, amount,
                              BorrowLtvBps(v, amount), FALSE, Now))

HedgeAfter_NoClamp(size, position_size, is_open) ==
    IF is_open THEN size + position_size ELSE size - position_size

\* vault.move 270-278: closing saturates at zero
HedgeAfter(size, position_size, is_open) ==
    IF is_open THEN size + position_size
    ELSE IF size >= position_size THEN size - position_size
    ELSE 0

record_hedge_position(id, sender, position_size, is_open) ==
    LET v == vaults[id] IN
    /\ v.exists
    /\ IF ~IsOwner(v, sender)
         THEN VaultAborts("record_hedge_position", id, sender, position_size,
                          is_open, "abort", EUnauthorized)
       ELSE IF ~NotPaused(v)
         THEN VaultAborts("record_hedge_position", id, sender, position_size,
                          is_open, "abort", EVaultPaused)
       ELSE IF is_open /\ AddOverflows(v.hedge_position_size, position_size)
         THEN VaultAborts("record_hedge_position", id, sender, position_size,
                          is_open, "arith", 0)
       ELSE /\ HedgeAfter(v.hedge_position_size, position_size, is_open) <= MaxHedge
            /\ VaultCommits("record_hedge_position", id, sender, position_size, is_open,
                   [v EXCEPT !.hedge_position_size =
                                 HedgeAfter(@, position_size, is_open),
                             !.last_updated = Now],
                   VaultEvent("HedgePosition", id, "none", position_size, 0,
                              is_open, Now))

\* the view function get_current_ltv_bps: BPS_DENOMINATOR for a vault without
\* collateral, else (borrowed_amount * BPS_DENOMINATOR) / collateral in u64
get_current_ltv_bps(v) ==
    IF v.collateral_balance = 0
      THEN [status |-> "return", value |-> BPS_DENOMINATOR]
    ELSE IF MulOverflows(v.borrowed_amount, BPS_DENOMINATOR)
      THEN [status |-> "arith", value |-> 0]
    ELSE [status |-> "return",
          value |-> (v.borrowed_amount * BPS_DENOMINATOR) \div v.collateral_balance]

\* `_admin: &VaultAdminCap`: only a transaction of the cap's owner can pass it
HoldsVaultAdminCap(sender) == vault_admin_cap_owner = sender

set_paused(op, id, sender, flag) ==
    LET v == vaults[id] IN
    /\ v.exists
    /\ IF ~HoldsVaultAdminCap(sender)
         THEN VaultAborts(op, id, sender, 0, FALSE, "rejected", 0)
       ELSE /\ vaults' = [vaults EXCEPT ![id] =
                   [v EXCEPT !.is_paused = flag, !.last_updated = Now]]
            /\ vault_result' = VaultCall(op, id, sender, 0, FALSE, "ok", 0)
            /\ vault_events' = << >>
            /\ vault_transfers' = TransfersOf(op, sender, 0)
            /\ vault_admin_caps' = vault_admin_caps + VaultAdminCapsConstructedBy(op)
            /\ UNCHANGED vault_admin_cap_owner

pause_vault(id, sender) == set_paused("pause_vault", id, sender, TRUE)

unpause_vault(id, sender) == set_paused("unpause_vault", id, sender, FALSE)

(***************************************************************************)
(* risk_manager.move                                                       *)
(***************************************************************************)
RISK_ELTVExceeded == 100
EPriceConfidenceTooWide == 101
EPriceStale == 102
ESlippageExceeded == 103
ESystemPaused == 104
DEFAULT_MAX_LTV_BPS == 6400
DEFAULT_MAX_PRICE_AGE == 60
DEFAULT_MAX_CONFIDENCE_RATIO_BPS == 100
DEFAULT_MAX_SLIPPAGE_BPS == 50
\* init's literal 1000000000000 (1000 SUI) in units of 10^10 MIST
DEFAULT_MAX_POSITION_SIZE == 100

RiskAdminCapsConstructedBy_ResumeMints(op) ==
    IF op \in {"init", "resume_system"} THEN 1 ELSE 0

\* the number of `RiskAdminCap { id: object::new(ctx) }` a function of
\* risk_manager.move evaluates: one in init, none in any other function
RiskAdminCapsConstructedBy(op) == IF op = "init" THEN 1 ELSE 0

\* fun init: default RiskConfig, RiskAdminCap to the publisher
RiskInit ==
    /\ risk_config =
           [max_ltv_bps |-> DEFAULT_MAX_LTV_BPS,
            max_price_age |-> DEFAULT_MAX_PRICE_AGE,
            max_confidence_ratio_bps |-> DEFAULT_MAX_CONFIDENCE_RATIO_BPS,
            max_slippage_bps |-> DEFAULT_MAX_SLIPPAGE_BPS,
            max_position_size |-> DEFAULT_MAX_POSITION_SIZE,
            is_system_paused |-> FALSE,
            last_updated |-> 0]
    /\ risk_admin_cap_owner = Publisher
    /\ risk_admin_caps = RiskAdminCapsConstructedBy("init")
    /\ risk_events = << >>
    /\ risk_result = [op |-> "none", sender |-> "none", args |-> << >>, now |-> 0,
                      paused_before |-> FALSE,
                      status |-> "ok", value |-> FALSE, code |-> 0]

\* What a call does: status is "return" (a bool in value), "ok" (returns
\* nothing), "abort" (assert! with code) or "arith" (arithmetic abort);
\* events are the events emitted before it returned.
Returns(value, events) ==
    [status |-> "return", value |-> value, code |-> 0, events |-> events]

ReturnsUnit ==
    [status |-> "ok", value |-> TRUE, code |-> 0, events |-> << >>]

Aborts(code) ==
    [status |-> "abort", value |-> FALSE, code |-> code, events |-> << >>]

ArithmeticAbort ==
    [status |-> "arith", value |-> FALSE, code |-> 0, events |-> << >>]

RiskCheckFailedEvent(check_type, actual_value, threshold, timestamp) ==
    [type |-> "RiskCheckFailed", check_type |-> check_type,
     actual_value |-> actual_value, threshold |-> threshold,
     timestamp |-> timestamp]

\* `ltv_bps > config.max_ltv_bps` (risk_manager.move 164)
LtvExceeds(ltv_bps, max_ltv_bps) == ltv_bps > max_ltv_bps

validate_ltv(config, collateral_value, borrow_value, now) ==
    IF config.is_system_paused THEN Aborts(ESystemPaused)
    ELSE IF collateral_value = 0 THEN Returns(borrow_value = 0, << >>)
    ELSE IF MulOverflows(borrow_value, BPS_DENOMINATOR) THEN ArithmeticAbort
    ELSE LET ltv_bps == (borrow_value * BPS_DENOMINATOR) \div collateral_value IN
         IF LtvExceeds(ltv_bps, config.max_ltv_bps)
           THEN Returns(FALSE, << RiskCheckFailedEvent("LTV_EXCEEDED", ltv_bps,
                                       config.max_ltv_bps, now) >>)
           ELSE Returns(TRUE, << >>)

assert_ltv_safe(config, collateral_value, borrow_value, now) ==
    LET r == validate_ltv(config, collateral_value, borrow_value, now) IN
    IF r.status # "return" THEN r
    ELSE IF ~r.value THEN Aborts(RISK_ELTVExceeded)
    ELSE ReturnsUnit

\* `now > price_data.publish_time + config.max_price_age` (risk_manager.move 201)
IsStale(now, deadline) == now > deadline

validate_price_data(config, price, confidence, publish_time, now) ==
    IF config.is_system_paused THEN Aborts(ESystemPaused)
    ELSE IF AddOverflows(publish_time, config.max_price_age) THEN ArithmeticAbort
    ELSE IF IsStale(now, publish_time + config.max_price_age)
      THEN Returns(FALSE, << RiskCheckFailedEvent("PRICE_STALE", now - publish_time,
                                  config.max_price_age, now) >>)
    ELSE IF price > 0
      THEN IF MulOverflows(confidence, BPS_DENOMINATOR) THEN ArithmeticAbort
           ELSE LET confidence_ratio == (confidence * BPS_DENOMINATOR) \div price IN
                IF confidence_ratio > config.max_confidence_ratio_bps
                  THEN Returns(FALSE, << RiskCheckFailedEvent(
                                  "PRICE_CONFIDENCE_TOO_WIDE", confidence_ratio,
                                  config.max_confidence_ratio_bps, now) >>)
                  ELSE Returns(TRUE, << >>)
    ELSE Returns(TRUE, << >>)

\* no pause check in this one (risk_manager.move 229-250)
assert_price_valid(config, price, confidence, publish_time, now) ==
    IF AddOverflows(publish_time, config.max_price_age) THEN ArithmeticAbort
    ELSE IF ~(now <= publish_time + config.max_price_age) THEN Aborts(EPriceStale)
    ELSE IF price > 0
      THEN IF MulOverflows(confidence, BPS_DENOMINATOR) THEN ArithmeticAbort
           ELSE LET confidence_ratio == (confidence * BPS_DENOMINATOR) \div price IN
                IF ~(confidence_ratio <= config.max_confidence_ratio_bps)
                  THEN Aborts(EPriceConfidenceTooWide)
                  ELSE ReturnsUnit
    ELSE ReturnsUnit

validate_slippage(config, expected_price, actual_price, now) ==
    IF config.is_system_paused THEN Aborts(ESystemPaused)
    ELSE IF expected_price = 0 THEN Returns(actual_price = 0, << >>)
    ELSE LET diff == IF actual_price >= expected_price
                       THEN actual_price - expected_price
                       ELSE expected_price - actual_price
         IN
         IF MulOverflows(diff, BPS_DENOMINATOR) THEN ArithmeticAbort
         ELSE LET slippage_bps == (diff * BPS_DENOMINATOR) \div expected_price IN
              IF slippage_bps > config.max_slippage_bps
                THEN Returns(FALSE, << RiskCheckFailedEvent("SLIPPAGE_EXCEEDED",
                                slippage_bps, config.max_slippage_bps, now) >>)
                ELSE Returns(TRUE, << >>)

assert_slippage_acceptable(config, expected_price, actual_price, now) ==
    LET r == validate_slippage(config, expected_price, actual_price, now) IN
    IF r.status # "return" THEN r
    ELSE IF ~r.value THEN Aborts(ESlippageExceeded)
    ELSE ReturnsUnit

PositionTooLarge_AtLimit(position_size, max_position_size) ==
    position_size >= max_position_size

\* `position_size > config.max_position_size` (risk_manager.move 306)
PositionTooLarge(position_size, max_position_size) ==
    position_size > max_position_size

validate_position_size(config, position_size, now) ==
    IF config.is_system_paused THEN Aborts(ESystemPaused)
    ELSE IF PositionTooLarge(position_size, config.max_position_size)
      THEN Returns(FALSE, << RiskCheckFailedEvent("POSITION_TOO_LARGE", position_size,
                                  config.max_position_size, now) >>)
    ELSE Returns(TRUE, << >>)

\* inputs offered to the validators
CollateralValues == {0, 50, 100, 400000}
BorrowValues == {0, 32, 33, 184468}
Prices == {0, 100, 20000000}
Confidences == {1, 2, 184468}
PublishTimes == {0, 1, 1844674407}
SlippagePrices == {0, 3490, 3500, 3510, 190000}
\* << expected_price, actual_price >> offered to the slippage validators: all
\* pairs of SlippagePrices, and a pair at the top of the u64 range
SlippageQuotes ==
    (SlippagePrices \X SlippagePrices) \cup { << U64_MAX, U64_MAX - 184468 >> }
PositionSizes == {0, 50, 100, 101}
\* parameter sets an administrator installs with update_risk_params:
\* << max_ltv_bps, max_price_age, max_slippage_bps, max_position_size >>
RiskParamChoices == { << 6400, 60, 50, 100 >>, << 5000, 30, 10, 50 >>,
                      << 6400, 30, 50, 50 >> }

\* a validator is a public function any sender's transaction can call; it
\* runs in a transaction of its own here, and the events of an aborted
\* transaction are dropped with it
RiskCalled_WritesTimestamp(op, args, r) ==
    /\ risk_result' = [op |-> op, sender |-> "any", args |-> args, now |-> Now,
                       paused_before |-> risk_config.is_system_paused,
                       status |-> r.status, value |-> r.value, code |-> r.code]
    /\ risk_events' = IF r.status \in {"return", "ok"} THEN r.events ELSE << >>
    /\ risk_config' = [risk_config EXCEPT !.last_updated = Now]
    /\ risk_admin_caps' = risk_admin_caps
           + IF r.status \in {"return", "ok"} THEN RiskAdminCapsConstructedBy(op) ELSE 0
    /\ UNCHANGED risk_admin_cap_owner

\* a validator takes `config: &RiskConfig`: it can read the configuration
\* and cannot write it
RiskCalled(op, args, r) ==
    /\ risk_result' = [op |-> op, sender |-> "any", args |-> args, now |-> Now,
                       paused_before |-> risk_config.is_system_paused,
                       status |-> r.status, value |-> r.value, code |-> r.code]
    /\ risk_events' = IF r.status \in {"return", "ok"} THEN r.events ELSE << >>
    /\ risk_admin_caps' = risk_admin_caps
           + IF r.status \in {"return", "ok"} THEN RiskAdminCapsConstructedBy(op) ELSE 0
    /\ UNCHANGED << risk_config, risk_admin_cap_owner >>

HoldsRiskAdminCap_AnySender(sender) == TRUE

\* `_admin: &RiskAdminCap`: only a transaction of the cap's owner can pass it
HoldsRiskAdminCap(sender) == risk_admin_cap_owner = sender

RiskAdminCalled(op, sender, args, config, ev) ==
    IF ~HoldsRiskAdminCap(sender)
      THEN /\ risk_result' = [op |-> op, sender |-> sender, args |-> args,
                              now |-> Now,
                              paused_before |-> risk_config.is_system_paused,
                              status |-> "rejected", value |-> FALSE, code |-> 0]
           /\ risk_events' = << >>
           /\ UNCHANGED << risk_config, risk_admin_cap_owner, risk_admin_caps >>
      ELSE /\ risk_config' = config
           /\ risk_result' = [op |-> op, sender |-> sender, args |-> args,
                              now |-> Now,
                              paused_before |-> risk_config.is_system_paused,
                              status |-> "ok", value |-> TRUE, code |-> 0]
           /\ risk_events' = << ev >>
           /\ risk_admin_caps' = risk_admin_caps + RiskAdminCapsConstructedBy(op)
           /\ UNCHANGED risk_admin_cap_owner

UpdatedConfig_WritesConfidenceLimit(config, params, now) ==
    [config EXCEPT !.max_ltv_bps = params[1],
                   !.max_price_age = params[2],
                   !.max_slippage_bps = params[3],
                   !.max_confidence_ratio_bps = params[3],
                   !.max_position_size = params[4],
                   !.last_updated = now]

\* what update_risk_params writes to the RiskConfig (risk_manager.move 333-337);
\* params is << max_ltv_bps, max_price_age, max_slippage_bps, max_position_size >>
UpdatedConfig(config, params, now) ==
    [config EXCEPT !.max_ltv_bps = params[1],
                   !.max_price_age = params[2],
                   !.max_slippage_bps = params[3],
                   !.max_position_size = params[4],
                   !.last_updated = now]

update_risk_params(sender, max_ltv_bps, max_price_age, max_slippage_bps, max_position_size) ==
    RiskAdminCalled("update_risk_params", sender,
        << max_ltv_bps, max_price_age, max_slippage_bps, max_position_size >>,
        UpdatedConfig(risk_config,
            << max_ltv_bps, max_price_age, max_slippage_bps, max_position_size >>, Now),
        [type |-> "RiskConfigUpdated", max_ltv_bps |-> max_ltv_bps,
         max_price_age |-> max_price_age, max_slippage_bps |-> max_slippage_bps,
         timestamp |-> Now])

PausedConfig_ResetsLimit(config, now) ==
    [config EXCEPT !.is_system_paused = TRUE, !.last_updated = now,
                   !.max_ltv_bps = DEFAULT_MAX_LTV_BPS]

\* what emergency_pause writes to the RiskConfig (risk_manager.move 354-355)
PausedConfig(config, now) ==
    [config EXCEPT !.is_system_paused = TRUE, !.last_updated = now]

\* what resume_system writes to the RiskConfig (risk_manager.move 370-371)
ResumedConfig(config, now) ==
    [config EXCEPT !.is_system_paused = FALSE, !.last_updated = now]

emergency_pause(sender) ==
    RiskAdminCalled("emergency_pause", sender, << >>,
        PausedConfig(risk_config, Now),
        [type |-> "SystemPaused", is_paused |-> TRUE, reason |-> "reason",
         timestamp |-> Now])

resume_system(sender) ==
    RiskAdminCalled("resume_system", sender, << >>,
        ResumedConfig(risk_config, Now),
        [type |-> "SystemPaused", is_paused |-> FALSE, reason |-> "RESUMED",
         timestamp |-> Now])

(***************************************************************************)
(* SDK: ptb_builder.ts (src/unnamed/part_001), oracle_service.ts,          *)
(* deepbook_service.ts, config.ts (src/unnamed/part_000)                   *)
(*                                                                         *)
(* Units: SUI amounts in 1/100 SUI, USDC amounts and prices in cents, the  *)
(* target LTV in percent, the slippage tolerance in basis points.  The     *)
(* floating-point products of the source are computed exactly.             *)
(***************************************************************************)
\* 10^SUI_DECIMALS in the units above: one SUI
SUI_UNIT == 100
\* MAINNET_ORACLE_CONFIG.maxPriceAge
ORACLE_MAX_PRICE_AGE == 60
\* DEEPBOOK_CONFIG.mainnet.minOrderSize (1 SUI)
MIN_ORDER_SIZE == 100

\* the fallback quote of the catch block: $3.50, confidence $0.01, now
MockPrice(now) == [price |-> 350, confidence |-> 1, publishTime |-> now]

\* quotes Hermes can answer with at time now
Quotes(now) ==
    { [price |-> p, confidence |-> c, publishTime |-> t] :
        p \in {333, 350}, c \in {1, 10}, t \in {now, now - 61} }

\* AtomicHedgeParams offered to the builder
SuiAmounts == {50, 100, 200}
TargetLtvs == {64, 80}
SlippageTolerances == {50}

\* which external collaborator fails in this attempt: the price feed (Pyth /
\* Hermes), the custody venue's collateral lock, the lending venue's borrow
\* or the execution venue's order placement
Faults == {"none", "price", "lock", "borrow", "hedge"}

NoPosition == [collateral |-> 0, debt |-> 0, hedge |-> 0]

IdleOrch ==
    [pc |-> "idle", variant |-> "none", fault |-> "none",
     suiAmount |-> 0, targetLTV |-> 0, slippageTolerance |-> 0,
     priceData |-> MockPrice(0),
     borrowAmount |-> 0, hedgeSize |-> 0, limitPrice |-> 0]

OrchInit ==
    /\ orch = IdleOrch
    /\ tx_cmds = << >>
    /\ txblock_cmds = << >>
    /\ returned_tx = << >>
    /\ venue_position = NoPosition
    /\ position_before = NoPosition

\* OracleService.validatePriceData: TRUE when it throws
validatePriceData_throws(priceData, now) ==
    \/ now - priceData.publishTime > ORACLE_MAX_PRICE_AGE
    \/ IF priceData.price = 0
         THEN priceData.confidence > 0
         ELSE priceData.confidence * 100 > priceData.price

\* OracleService.validatePriceData has not been called directly yet
OracleInit ==
    oracle_result = [op |-> "none", price |-> 0, confidence |-> 0, publishTime |-> 0,
                     now |-> 0, threw |-> FALSE]

\* PTBBuilder.calculateHedgeParams, after the validation
borrowAmountOf(suiAmount, price, targetLTV) ==
    (suiAmount * price * targetLTV) \div (SUI_UNIT * 100)

hedgeSizeOf_RoundedUp(borrowAmount, price) ==
    (borrowAmount * SUI_UNIT + price - 1) \div price

\* Math.floor(borrowAmount / price) in SUI units (part_001 143-145)
hedgeSizeOf(borrowAmount, price) ==
    (borrowAmount * SUI_UNIT) \div price

\* limitPrice = suiPrice * (1 - slippageTolerance), in 1/10000 cent
limitPriceOf(price, slippageBps) == price * (10000 - slippageBps)

(***************************************************************************)
(* PTBBuilder.initialize and the methods that call it first.  JavaScript   *)
(* runs one caller at a time and switches callers only at an await: an     *)
(* action is the code a call runs between two awaits.                      *)
(***************************************************************************)
\* async calls that can be in flight on one builder at the same time
Callers == {"c1", "c2", "c3"}

\* the methods that start with `if (!this.initialized) await this.initialize()`
GuardedMethods == {"buildAtomicHedgePTB", "buildFullAtomicHedgePTB", "getObligations", "getMarketData"}

NoCall == [method |-> "none", pc |-> "idle"]

\* `private initialized = false` and a builder nobody has called yet
BuilderInit ==
    builder = [initialized |-> FALSE, scallop_inits |-> 0, calls |-> [c \in Callers |-> NoCall]]

\* initialize up to its first await: `if (this.initialized) return;` and,
\* when the flag is false, the call of this.scallopSDK.init().  A guarded
\* method that finds the flag true goes on with its body.
EnterInitialize(c, method) ==
    /\ builder.calls[c].pc = "idle"
    /\ IF ~builder.initialized
         THEN builder' = [builder EXCEPT
                  !.scallop_inits = @ + 1,
                  !.calls[c] = [method |-> method, pc |-> "await_init"]]
         ELSE builder' = [builder EXCEPT
                  !.calls[c] = [method |-> method,
                                pc |-> IF method = "initialize" THEN "done" ELSE "body"]]

\* a client calls builder.initialize()
CallInitialize ==
    /\ \E c \in Callers : EnterInitialize(c, "initialize")
    /\ UNCHANGED << clock_ms, vault_vars, risk_vars, orch_vars, deepbook_result, oracle_result >>

\* a client calls a method that initialises the builder first
CallGuardedMethod ==
    /\ \E c \in Callers, m \in GuardedMethods : EnterInitialize(c, m)
    /\ UNCHANGED << clock_ms, vault_vars, risk_vars, orch_vars, deepbook_result, oracle_result >>

\* `await this.scallopSDK.init()` returns; createScallopBuilder is called
ScallopInitReturns ==
    /\ \E c \in Callers :
          /\ builder.calls[c].pc = "await_init"
          /\ builder' = [builder EXCEPT !.calls[c].pc = "await_builder"]
    /\ UNCHANGED << clock_ms, vault_vars, risk_vars, orch_vars, deepbook_result, oracle_result >>

\* `await this.scallopSDK.createScallopBuilder()` returns; createScallopQuery is called
CreateBuilderReturns ==
    /\ \E c \in Callers :
          /\ builder.calls[c].pc = "await_builder"
          /\ builder' = [builder EXCEPT !.calls[c].pc = "await_query"]
    /\ UNCHANGED << clock_ms, vault_vars, risk_vars, orch_vars, deepbook_result, oracle_result >>

\* `await this.scallopSDK.createScallopQuery()` returns: `this.initialized = true`
\* and initialize resolves
CreateQueryReturns ==
    /\ \E c \in Callers :
          /\ builder.calls[c].pc = "await_query"
          /\ builder' = [builder EXCEPT
                 !.initialized = TRUE,
                 !.calls[c].pc = IF builder.calls[c].method = "initialize"
                                   THEN "done" ELSE "body"]
    /\ UNCHANGED << clock_ms, vault_vars, risk_vars, orch_vars, deepbook_result, oracle_result >>

\* the rest of a guarded method, after `await this.initialize()`
MethodBodyRuns ==
    /\ \E c \in Callers :
          /\ builder.calls[c].pc = "body"
          /\ builder' = [builder EXCEPT !.calls[c].pc = "done"]
    /\ UNCHANGED << clock_ms, vault_vars, risk_vars, orch_vars, deepbook_result, oracle_result >>

\* the call's promise settles; the client may call again
CallSettles ==
    /\ \E c \in Callers :
          /\ builder.calls[c].pc = "done"
          /\ builder' = [builder EXCEPT !.calls[c] = NoCall]
    /\ UNCHANGED << clock_ms, vault_vars, risk_vars, orch_vars, deepbook_result, oracle_result >>

\* DeepBookService.validateOrderParams: TRUE when it throws
validateOrderParams_throws(quantity, price) ==
    quantity < MIN_ORDER_SIZE \/ price <= 0

Cmd(kind, amount) == [cmd |-> kind, amount |-> amount]

\* buildAtomicHedgePTB / buildFullAtomicHedgePTB is called
BuilderCalled(variant, suiAmount, targetLTV, slippage, fault) ==
    /\ orch.pc = "idle"
    /\ venue_position.collateral + suiAmount <= MaxLocked
    /\ orch' = [IdleOrch EXCEPT !.pc = "step0", !.variant = variant,
                                !.fault = fault, !.suiAmount = suiAmount,
                                !.targetLTV = targetLTV,
                                !.slippageTolerance = slippage]
    /\ tx_cmds' = << >>
    /\ txblock_cmds' = << >>
    /\ returned_tx' = << >>
    /\ position_before' = venue_position
    /\ UNCHANGED << venue_position, pool_configured >>

\* Step 0: getCurrentPrice, with the mock quote when it throws
FetchPrice ==
    /\ orch.pc = "step0"
    /\ \E q \in (IF orch.fault = "price" THEN {MockPrice(Now)} ELSE Quotes(Now)) :
           orch' = [orch EXCEPT !.pc = "calc", !.priceData = q]
    /\ UNCHANGED << tx_cmds, txblock_cmds, returned_tx, venue_position,
                    position_before, pool_configured >>

\* calculateHedgeParams; a throw of validatePriceData ends the call
CalculateHedgeParams ==
    /\ orch.pc = "calc"
    /\ IF validatePriceData_throws(orch.priceData, Now)
         THEN orch' = [orch EXCEPT !.pc = "threw"]
         ELSE LET b == borrowAmountOf(orch.suiAmount, orch.priceData.price,
                                      orch.targetLTV)
              IN orch' = [orch EXCEPT
                     !.pc = "step1",
                     !.borrowAmount = b,
                     !.hedgeSize = hedgeSizeOf(b, orch.priceData.price),
                     !.limitPrice = limitPriceOf(orch.priceData.price,
                                                 orch.slippageTolerance)]
    /\ UNCHANGED << tx_cmds, txblock_cmds, returned_tx, venue_position,
                    position_before, pool_configured >>

\* TRUE when a failure of addPriceUpdateToTx is caught and the build goes on
\* (part_001 210-214, 353-355)
OracleFailureSwallowed == TRUE

\* Step 1: addPriceUpdateToTx(tx, ...) inside try / catch
AddPriceUpdate ==
    /\ orch.pc = "step1"
    /\ IF orch.fault = "price"
         THEN /\ orch' = [orch EXCEPT !.pc =
                            IF OracleFailureSwallowed THEN "step2" ELSE "threw"]
              /\ UNCHANGED tx_cmds
         ELSE /\ orch' = [orch EXCEPT !.pc = "step2"]
              /\ tx_cmds' = Append(tx_cmds, Cmd("oracle_price_update", 0))
    /\ UNCHANGED << txblock_cmds, returned_tx, venue_position, position_before,
                    pool_configured >>

\* Steps 2-3: createTxBlock(), depositCollateral, borrowQuick on txBlock
AddScallopSteps ==
    /\ orch.pc = "step2"
    /\ orch' = [orch EXCEPT !.pc = "step4"]
    /\ txblock_cmds' = << Cmd("deposit_collateral", orch.suiAmount),
                          Cmd("borrow_usdc", orch.borrowAmount) >>
    /\ UNCHANGED << tx_cmds, returned_tx, venue_position, position_before,
                    pool_configured >>

\* Step 4: the DeepBook order.  Only buildFullAtomicHedgePTB adds it, to `tx`;
\* buildAtomicHedgePTB validates and logs.
AddHedgeOrder ==
    /\ orch.pc = "step4"
    /\ IF ~pool_configured
         THEN orch' = [orch EXCEPT !.pc = "built"] /\ UNCHANGED tx_cmds
       ELSE IF validateOrderParams_throws(orch.hedgeSize, orch.limitPrice)
         THEN orch' = [orch EXCEPT !.pc = "threw"] /\ UNCHANGED tx_cmds
       ELSE /\ orch' = [orch EXCEPT !.pc = "built"]
            /\ tx_cmds' = IF orch.variant = "full"
                            THEN Append(tx_cmds, Cmd("place_limit_order", orch.hedgeSize))
                            ELSE tx_cmds
    /\ UNCHANGED << txblock_cmds, returned_tx, venue_position, position_before,
                    pool_configured >>

\* the commands of the Transaction the builder hands back:
\* `const finalTx = txBlock.txBlock`
FinalTx == txblock_cmds

ReturnFinalTx ==
    /\ orch.pc = "built"
    /\ orch' = [orch EXCEPT !.pc = "returned"]
    /\ returned_tx' = FinalTx
    /\ UNCHANGED << tx_cmds, txblock_cmds, venue_position, position_before,
                    pool_configured >>

\* the step a command belongs to
StepOf(c) ==
    CASE c.cmd = "oracle_price_update" -> "price"
      [] c.cmd = "deposit_collateral" -> "lock"
      [] c.cmd = "borrow_usdc" -> "borrow"
      [] c.cmd = "place_limit_order" -> "hedge"

AmountOf(cmds, kind) ==
    LET hits == { i \in 1..Len(cmds) : cmds[i].cmd = kind } IN
    IF hits = {} THEN 0 ELSE cmds[CHOOSE i \in hits : TRUE].amount

\* The returned Transaction is signed and executed.  A programmable
\* transaction block commits all of its commands or none: it reverts when one
\* of its commands is rejected by its venue.
ExecuteReturnedTx ==
    /\ orch.pc = "returned"
    /\ IF \E i \in 1..Len(returned_tx) : StepOf(returned_tx[i]) = orch.fault
         THEN /\ orch' = [orch EXCEPT !.pc = "reverted"]
              /\ UNCHANGED venue_position
         ELSE /\ orch' = [orch EXCEPT !.pc = "executed"]
              /\ venue_position' =
                     [collateral |-> venue_position.collateral
                                       + AmountOf(returned_tx, "deposit_collateral"),
                      debt |-> venue_position.debt
                                   + AmountOf(returned_tx, "borrow_usdc"),
                      hedge |-> venue_position.hedge
                                    + AmountOf(returned_tx, "place_limit_order")]
    /\ UNCHANGED << tx_cmds, txblock_cmds, returned_tx, position_before,
                    pool_configured >>

\* the caller is done with this attempt
AttemptOver ==
    /\ orch.pc \in {"threw", "reverted", "executed"}
    /\ orch' = IdleOrch
    /\ UNCHANGED << tx_cmds, txblock_cmds, returned_tx, venue_position,
                    position_before, pool_configured >>

(***************************************************************************)
(* SDK: deepbook_service.ts, the price helpers                             *)
(*                                                                         *)
(* Prices in cents, slippage in basis points; a limit price is in 1/10000  *)
(* cent, so that price * (1 -+ slippageBps / 10000) is exact.              *)
(***************************************************************************)
\* a JavaScript number: the value m / 2^s, kept with m odd or s = 0
Float(m, s) == [m |-> m, s |-> s]

NoDeepBookCall ==
    [op |-> "none", marketPrice |-> 0, side |-> "none", slippageBps |-> 0,
     limitPrice |-> 0, literal |-> 0, price |-> Float(0, 0), dbPrice |-> 0,
     backPrice |-> Float(0, 0)]

DeepBookInit == deepbook_result = NoDeepBookCall

\* inputs offered to the price helpers
MarketPrices == {1, 100, 333, 350, 1000}
OrderSides == {"sell", "buy"}
SlippageBpsChoices == {0, 50, 100, 9999}

calculateHedgePrice_SidesSwapped(marketPrice, side, slippageBps) ==
    IF side = "sell" THEN marketPrice * (10000 + slippageBps)
                     ELSE marketPrice * (10000 - slippageBps)

\* DeepBookService.calculateHedgePrice
calculateHedgePrice(marketPrice, side, slippageBps) ==
    IF side = "sell" THEN marketPrice * (10000 - slippageBps)
                     ELSE marketPrice * (10000 + slippageBps)

\* calculateHedgeOrderParams: the limit price and the side of the opening leg
calculateHedgeOrderParams(currentPrice, slippageBps) ==
    [limitPrice |-> currentPrice * (10000 - slippageBps), side |-> "sell"]

CalculateHedgePriceCalled(marketPrice, side, slippageBps) ==
    deepbook_result' =
        [NoDeepBookCall EXCEPT
            !.op = "calculateHedgePrice", !.marketPrice = marketPrice,
            !.side = side, !.slippageBps = slippageBps,
            !.limitPrice = calculateHedgePrice(marketPrice, side, slippageBps)]

CalculateHedgeOrderParamsCalled(currentPrice, slippageBps) ==
    LET r == calculateHedgeOrderParams(currentPrice, slippageBps) IN
    deepbook_result' =
        [NoDeepBookCall EXCEPT
            !.op = "calculateHedgeOrderParams", !.marketPrice = currentPrice,
            !.side = r.side, !.slippageBps = slippageBps,
            !.limitPrice = r.limitPrice]

(***************************************************************************)
(* SDK: deepbook_service.ts, the price format conversions                  *)
(*                                                                         *)
(* price is a JavaScript number, a binary floating-point value; `*` and    *)
(* `/` round their exact result to the nearest value of the format, ties   *)
(* to even.  The format here has MantissaBits significant bits (53 in the  *)
(* SDK) and the venue has priceDecimals decimals (9 in the SDK); the       *)
(* venue-format integers stay far below 2^MantissaBits, as in the SDK.     *)
(***************************************************************************)
MantissaBits == 16
priceDecimals == 2
MaxPriceLiteral == 4000

RECURSIVE Pow2(_)
Pow2(n) == IF n = 0 THEN 1 ELSE 2 * Pow2(n - 1)

RECURSIVE Pow10(_)
Pow10(n) == IF n = 0 THEN 1 ELSE 10 * Pow10(n - 1)

RECURSIVE BitLength(_)
BitLength(n) == IF n = 0 THEN 0 ELSE 1 + BitLength(n \div 2)

\* the integer nearest to num / den, a tie going to the even one
RoundHalfEven(num, den) ==
    LET q == num \div den
        r == num % den
    IN  IF 2 * r < den THEN q
        ELSE IF 2 * r > den THEN q + 1
        ELSE IF q % 2 = 0 THEN q ELSE q + 1

RECURSIVE Canon(_, _)
Canon(m, s) ==
    IF m = 0 THEN Float(0, 0)
    ELSE IF s > 0 /\ m % 2 = 0 THEN Canon(m \div 2, s - 1)
    ELSE Float(m, s)

\* the least s with num * 2^s / den >= 2^(MantissaBits - 1)
RECURSIVE ScaleOf(_, _, _)
ScaleOf(num, den, s) ==
    IF num * Pow2(s) >= den * Pow2(MantissaBits - 1) THEN s
    ELSE ScaleOf(num, den, s + 1)

\* the number nearest to num / den: what a decimal literal denotes, and what
\* `/` returns for two exactly represented integers
FromRational(num, den) ==
    IF num = 0 THEN Float(0, 0)
    ELSE LET s == ScaleOf(num, den, 0)
         IN  Canon(RoundHalfEven(num * Pow2(s), den), s)

\* a * n for a number a and an exactly represented integer n: the exact
\* product rounded to MantissaBits significant bits
FMul(a, n) ==
    LET exact == a.m * n
        drop == BitLength(exact) - MantissaBits
    IN  IF drop <= 0 THEN Canon(exact, a.s)
        ELSE Canon(RoundHalfEven(exact, Pow2(drop)), a.s - drop)

\* Math.floor followed by BigInt
Floor(a) == a.m \div Pow2(a.s)

\* BigInt(Math.floor(price * Math.pow(10, priceDecimals)))
priceToDeepBookFormat(price) == Floor(FMul(price, Pow10(priceDecimals)))

\* Number(price) / Math.pow(10, priceDecimals)
priceFromDeepBookFormat(dbPrice) == FromRational(dbPrice, Pow10(priceDecimals))

\* prices offered to the conversions: the decimal literals with one digit
\* more than the venue keeps, n / 10^(priceDecimals + 1)
PriceLiterals == 0 .. MaxPriceLiteral

PriceOfLiteral(n) == FromRational(n, Pow10(priceDecimals + 1))

\* the price handed to the conversions
PriceGiven(n) ==
    [NoDeepBookCall EXCEPT !.op = "price", !.literal = n,
                           !.price = PriceOfLiteral(n)]

PriceToDeepBookFormatCalled ==
    /\ deepbook_result.op = "price"
    /\ deepbook_result' =
           [deepbook_result EXCEPT
               !.op = "priceToDeepBookFormat",
               !.dbPrice = priceToDeepBookFormat(deepbook_result.price)]

PriceFromDeepBookFormatCalled ==
    /\ deepbook_result.op = "priceToDeepBookFormat"
    /\ deepbook_result' =
           [deepbook_result EXCEPT
               !.op = "priceFromDeepBookFormat",
               !.backPrice = priceFromDeepBookFormat(deepbook_result.dbPrice)]

(***************************************************************************)
(* Specifications                                                          *)
(***************************************************************************)
\* the shipped configuration: the pool id is the placeholder "0x..."
Init ==
    /\ clock_ms = 0
    /\ VaultInit
    /\ RiskInit
    /\ OrchInit
    /\ DeepBookInit
    /\ OracleInit
    /\ BuilderInit
    /\ pool_configured = FALSE

\* the SDK with either configuration of the DeepBook pool
SdkInit ==
    /\ clock_ms = 0
    /\ VaultInit
    /\ RiskInit
    /\ OrchInit
    /\ DeepBookInit
    /\ OracleInit
    /\ BuilderInit
    /\ pool_configured \in BOOLEAN

\* time passes between transactions
Tick ==
    /\ clock_ms + ClockStepMs <= MaxClockMs
    /\ clock_ms' = clock_ms + ClockStepMs
    /\ UNCHANGED << vault_vars, risk_vars, orch_vars, deepbook_result, oracle_result, builder >>

CallCreateVault ==
    \E s \in Addresses : create_vault(s) /\ UNCHANGED << clock_ms, risk_vars, orch_vars, deepbook_result, oracle_result, builder >>

CallDeposit ==
    \E id \in VaultIds, s \in Addresses, a \in DepositAmounts :
        deposit(id, s, a) /\ UNCHANGED << clock_ms, risk_vars, orch_vars, deepbook_result, oracle_result, builder >>

CallWithdraw ==
    \E id \in VaultIds, s \in Addresses, a \in WithdrawAmounts :
        withdraw(id, s, a) /\ UNCHANGED << clock_ms, risk_vars, orch_vars, deepbook_result, oracle_result, builder >>

CallRecordBorrow ==
    \E id \in VaultIds, s \in Addresses, a \in BorrowAmounts :
        record_borrow(id, s, a) /\ UNCHANGED << clock_ms, risk_vars, orch_vars, deepbook_result, oracle_result, builder >>

CallRecordHedgePosition ==
    \E id \in VaultIds, s \in Addresses, a \in HedgeSizes, o \in BOOLEAN :
        record_hedge_position(id, s, a, o) /\ UNCHANGED << clock_ms, risk_vars, orch_vars, deepbook_result, oracle_result, builder >>

CallPauseVault ==
    \E id \in VaultIds, s \in Addresses :
        pause_vault(id, s) /\ UNCHANGED << clock_ms, risk_vars, orch_vars, deepbook_result, oracle_result, builder >>

CallUnpauseVault ==
    \E id \in VaultIds, s \in Addresses :
        unpause_vault(id, s) /\ UNCHANGED << clock_ms, risk_vars, orch_vars, deepbook_result, oracle_result, builder >>

VaultNext ==
    \/ Tick
    \/ CallCreateVault
    \/ CallDeposit
    \/ CallWithdraw
    \/ CallRecordBorrow
    \/ CallRecordHedgePosition
    \/ CallPauseVault
    \/ CallUnpauseVault

VaultSpec == Init /\ [][VaultNext]_vars

CallValidateLtv ==
    \E c \in CollateralValues, b \in BorrowValues :
        /\ RiskCalled("validate_ltv", << c, b >>,
                      validate_ltv(risk_config, c, b, Now))
        /\ UNCHANGED << clock_ms, vault_vars, orch_vars, deepbook_result, oracle_result, builder >>

CallAssertLtvSafe ==
    \E c \in CollateralValues, b \in BorrowValues :
        /\ RiskCalled("assert_ltv_safe", << c, b >>,
                      assert_ltv_safe(risk_config, c, b, Now))
        /\ UNCHANGED << clock_ms, vault_vars, orch_vars, deepbook_result, oracle_result, builder >>

CallValidatePriceData ==
    \E p \in Prices, c \in Confidences, t \in PublishTimes :
        /\ RiskCalled("validate_price_data", << p, c, t >>,
                      validate_price_data(risk_config, p, c, t, Now))
        /\ UNCHANGED << clock_ms, vault_vars, orch_vars, deepbook_result, oracle_result, builder >>

CallAssertPriceValid ==
    \E p \in Prices, c \in Confidences, t \in PublishTimes :
        /\ RiskCalled("assert_price_valid", << p, c, t >>,
                      assert_price_valid(risk_config, p, c, t, Now))
        /\ UNCHANGED << clock_ms, vault_vars, orch_vars, deepbook_result, oracle_result, builder >>

CallValidateSlippage ==
    \E q \in SlippageQuotes :
        /\ RiskCalled("validate_slippage", q,
                      validate_slippage(risk_config, q[1], q[2], Now))
        /\ UNCHANGED << clock_ms, vault_vars, orch_vars, deepbook_result, oracle_result, builder >>

CallAssertSlippageAcceptable ==
    \E q \in SlippageQuotes :
        /\ RiskCalled("assert_slippage_acceptable", q,
                      assert_slippage_acceptable(risk_config, q[1], q[2], Now))
        /\ UNCHANGED << clock_ms, vault_vars, orch_vars, deepbook_result, oracle_result, builder >>

CallValidatePositionSize ==
    \E p \in PositionSizes :
        /\ RiskCalled("validate_position_size", << p >>,
                      validate_position_size(risk_config, p, Now))
        /\ UNCHANGED << clock_ms, vault_vars, orch_vars, deepbook_result, oracle_result, builder >>

CallUpdateRiskParams ==
    \E s \in Addresses, p \in RiskParamChoices :
        /\ update_risk_params(s, p[1], p[2], p[3], p[4])
        /\ UNCHANGED << clock_ms, vault_vars, orch_vars, deepbook_result, oracle_result, builder >>

CallEmergencyPause ==
    \E s \in Addresses : emergency_pause(s) /\ UNCHANGED << clock_ms, vault_vars, orch_vars, deepbook_result, oracle_result, builder >>

CallResumeSystem ==
    \E s \in Addresses : resume_system(s) /\ UNCHANGED << clock_ms, vault_vars, orch_vars, deepbook_result, oracle_result, builder >>

RiskNext ==
    \/ Tick
    \/ CallValidateLtv
    \/ CallAssertLtvSafe
    \/ CallValidatePriceData
    \/ CallAssertPriceValid
    \/ CallValidateSlippage
    \/ CallAssertSlippageAcceptable
    \/ CallValidatePositionSize
    \/ CallUpdateRiskParams
    \/ CallEmergencyPause
    \/ CallResumeSystem

RiskSpec == Init /\ [][RiskNext]_vars

CallBuilder ==
    \E v \in {"atomic", "full"}, a \in SuiAmounts, l \in TargetLtvs,
       sl \in SlippageTolerances, f \in Faults :
        /\ BuilderCalled(v, a, l, sl, f)
        /\ UNCHANGED << clock_ms, vault_vars, risk_vars, deepbook_result, oracle_result, builder >>

StepFetchPrice ==
    FetchPrice /\ UNCHANGED << clock_ms, vault_vars, risk_vars, deepbook_result, oracle_result, builder >>

StepCalculateHedgeParams ==
    CalculateHedgeParams /\ UNCHANGED << clock_ms, vault_vars, risk_vars, deepbook_result, oracle_result, builder >>

StepAddPriceUpdate ==
    AddPriceUpdate /\ UNCHANGED << clock_ms, vault_vars, risk_vars, deepbook_result, oracle_result, builder >>

StepAddScallopSteps ==
    AddScallopSteps /\ UNCHANGED << clock_ms, vault_vars, risk_vars, deepbook_result, oracle_result, builder >>

StepAddHedgeOrder ==
    AddHedgeOrder /\ UNCHANGED << clock_ms, vault_vars, risk_vars, deepbook_result, oracle_result, builder >>

StepReturnFinalTx ==
    ReturnFinalTx /\ UNCHANGED << clock_ms, vault_vars, risk_vars, deepbook_result, oracle_result, builder >>

StepExecuteReturnedTx ==
    ExecuteReturnedTx /\ UNCHANGED << clock_ms, vault_vars, risk_vars, deepbook_result, oracle_result, builder >>

StepAttemptOver ==
    AttemptOver /\ UNCHANGED << clock_ms, vault_vars, risk_vars, deepbook_result, oracle_result, builder >>

OrchNext ==
    \/ Tick
    \/ CallBuilder
    \/ StepFetchPrice
    \/ StepCalculateHedgeParams
    \/ StepAddPriceUpdate
    \/ StepAddScallopSteps
    \/ StepAddHedgeOrder
    \/ StepReturnFinalTx
    \/ StepExecuteReturnedTx
    \/ StepAttemptOver

OrchSpec == SdkInit /\ [][OrchNext]_vars

\* the orchestrator at work while a VaultLedger of the caller exists
OrchVaultNext ==
    \/ CallCreateVault
    \/ CallBuilder
    \/ StepFetchPrice
    \/ StepCalculateHedgeParams
    \/ StepAddPriceUpdate
    \/ StepAddScallopSteps
    \/ StepAddHedgeOrder
    \/ StepReturnFinalTx
    \/ StepExecuteReturnedTx
    \/ StepAttemptOver

OrchVaultSpec == SdkInit /\ [][OrchVaultNext]_vars

\* the vault and the RiskConfig side by side: the owner funds a vault and
\* records borrows while the administrator changes the risk parameters and
\* pauses or resumes the system
VaultRiskNext ==
    \/ CallCreateVault
    \/ CallDeposit
    \/ CallRecordBorrow
    \/ CallUpdateRiskParams
    \/ CallEmergencyPause
    \/ CallResumeSystem

VaultRiskSpec == Init /\ [][VaultRiskNext]_vars

CallCalculateHedgePrice ==
    \E p \in MarketPrices, sd \in OrderSides, bps \in SlippageBpsChoices :
        /\ CalculateHedgePriceCalled(p, sd, bps)
        /\ UNCHANGED << clock_ms, vault_vars, risk_vars, orch_vars, oracle_result, builder >>

CallCalculateHedgeOrderParams ==
    \E p \in MarketPrices, bps \in SlippageBpsChoices :
        /\ CalculateHedgeOrderParamsCalled(p, bps)
        /\ UNCHANGED << clock_ms, vault_vars, risk_vars, orch_vars, oracle_result, builder >>

DeepBookNext ==
    \/ Tick
    \/ CallCalculateHedgePrice
    \/ CallCalculateHedgeOrderParams

DeepBookSpec == Init /\ [][DeepBookNext]_vars

\* the price conversions are pure: the price is drawn at the start and the
\* two conversions are applied to it in turn
PriceFormatInit ==
    /\ clock_ms = 0
    /\ VaultInit
    /\ RiskInit
    /\ OrchInit
    /\ OracleInit
    /\ BuilderInit
    /\ pool_configured = FALSE
    /\ \E n \in PriceLiterals : deepbook_result = PriceGiven(n)

CallPriceToDeepBookFormat ==
    /\ PriceToDeepBookFormatCalled
    /\ UNCHANGED << clock_ms, vault_vars, risk_vars, orch_vars, oracle_result, builder >>

CallPriceFromDeepBookFormat ==
    /\ PriceFromDeepBookFormatCalled
    /\ UNCHANGED << clock_ms, vault_vars, risk_vars, orch_vars, oracle_result, builder >>

PriceFormatNext ==
    \/ CallPriceToDeepBookFormat
    \/ CallPriceFromDeepBookFormat

PriceFormatSpec == PriceFormatInit /\ [][PriceFormatNext]_vars

(***************************************************************************)
(* the two price validators on the same quotes: the SDK's                  *)
(* OracleService.validatePriceData and risk_manager::validate_price_data   *)
(* under the bootstrap RiskConfig                                          *)
(***************************************************************************)
\* quotes offered to both validators: 2/200 is exactly 1%, 3/200 is 1.5%,
\* 2/199 is 1.005% (100 bps after the integer division), and a price of 0
\* with and without a confidence; published at second 0 or 1
OracleQuotes ==
    [price : {0, 199, 200}, confidence : {0, 2, 3}, publishTime : {0, 1}]

\* a client calls OracleService.validatePriceData(priceData) at time Now
\* (Math.floor(Date.now() / 1000)) on a service built with
\* MAINNET_ORACLE_CONFIG; the call either throws or returns nothing
CallOracleValidatePriceData ==
    /\ \E q \in OracleQuotes :
          oracle_result' = [op |-> "validatePriceData", price |-> q.price,
                            confidence |-> q.confidence,
                            publishTime |-> q.publishTime, now |-> Now,
                            threw |-> validatePriceData_throws(q, Now)]
    /\ UNCHANGED << clock_ms, vault_vars, risk_vars, orch_vars, deepbook_result, builder >>

CallValidateQuote ==
    \E q \in OracleQuotes :
        /\ RiskCalled("validate_price_data", << q.price, q.confidence, q.publishTime >>,
                      validate_price_data(risk_config, q.price, q.confidence,
                                          q.publishTime, Now))
        /\ UNCHANGED << clock_ms, vault_vars, orch_vars, deepbook_result, oracle_result, builder >>

PriceCheckNext ==
    \/ Tick
    \/ CallOracleValidatePriceData
    \/ CallValidateQuote

PriceCheckSpec == Init /\ [][PriceCheckNext]_vars

(***************************************************************************)
(* concurrent calls on one PTBBuilder                                      *)
(***************************************************************************)
BuilderNext ==
    \/ CallInitialize
    \/ CallGuardedMethod
    \/ ScallopInitReturns
    \/ CreateBuilderReturns
    \/ CreateQueryReturns
    \/ MethodBodyRuns
    \/ CallSettles

BuilderSpec == SdkInit /\ [][BuilderNext]_vars

(***************************************************************************)
(* Properties                                                              *)
(***************************************************************************)
\* floor(n * 10000 / d), the basis-point ratio of the specification
FloorBps(n, d) == (n * 10000) \div d

OwnerOnlyOps == {"withdraw", "record_borrow", "record_hedge_position"}
PauseGatedOps == {"deposit"} \cup OwnerOnlyOps
ValidatorOps == {"validate_ltv", "assert_ltv_safe", "validate_price_data",
                 "assert_price_valid", "validate_slippage",
                 "assert_slippage_acceptable", "validate_position_size"}
RiskAdminOps == {"update_risk_params", "emergency_pause", "resume_system"}

\* C1: when a failure is injected at one of the four steps (price
\* attestation, collateral lock, debt draw, hedge order placement) the unit
\* has no effect: once the attempt is over, the collateral locked, the debt
\* recorded and the hedge open are what they were before the attempt.
C1_FailedAttemptHasNoEffect ==
    (orch.fault # "none" /\ orch.pc \in {"threw", "reverted", "executed"})
    => venue_position = position_before

\* C2: after every successful record_borrow the vault's total debt is within
\* the LTV limit: collateral_balance > 0 and
\* floor(borrowed_amount * 10000 / collateral_balance) <= max_ltv_bps.
C2_BorrowKeepsTotalLtv ==
    \A id \in VaultIds :
        (/\ vault_result.op = "record_borrow"
         /\ vault_result.status = "ok"
         /\ vault_result.vault_id = id)
        => /\ vaults[id].collateral_balance > 0
           /\ FloorBps(vaults[id].borrowed_amount, vaults[id].collateral_balance)
                  <= MAX_LTV_BPS

\* C3: a withdraw that succeeds on a vault with outstanding debt leaves a
\* position that passes the LTV rule:
\* floor(borrowed_amount * 10000 / (collateral_balance - amount)) <= max_ltv_bps.
C3_WithdrawKeepsLtv ==
    \A id \in VaultIds :
        (/\ vault_result.op = "withdraw"
         /\ vault_result.status = "ok"
         /\ vault_result.vault_id = id
         /\ vaults[id].borrowed_amount > 0)
        => /\ vaults[id].collateral_balance > 0
           /\ FloorBps(vaults[id].borrowed_amount, vaults[id].collateral_balance)
                  <= MAX_LTV_BPS

\* C4: in every reachable vault state collateral_balance = 0 implies
\* borrowed_amount = 0.
C4_NoDebtWithoutCollateral ==
    \A id \in VaultIds :
        vaults[id].collateral_balance = 0 => vaults[id].borrowed_amount = 0

\* C4 witness: the owner of a vault with debt asked for the whole collateral
\* and the withdraw aborted with ELTVExceeded.
C4_Witness ==
    \E id \in VaultIds :
        /\ vault_result.op = "withdraw"
        /\ vault_result.vault_id = id
        /\ vault_result.status = "abort"
        /\ vault_result.code = ELTVExceeded
        /\ vault_result.amount = vaults[id].collateral_balance
        /\ vaults[id].borrowed_amount > 0

\* C5: while system_paused is true every RiskEngine validator, the assert_*
\* variants included, rejects whatever its other inputs are, and the pause
\* check comes first: the call aborts with ESystemPaused.
C5_PausedRejectsEveryValidator ==
    (risk_config.is_system_paused /\ risk_result.op \in ValidatorOps)
    => (risk_result.status = "abort" /\ risk_result.code = ESystemPaused)

\* C6: a RiskConfig field changes only in a successful update_risk_params,
\* emergency_pause or resume_system sent by the holder of the RiskAdminCap.
C6_ConfigChangesOnlyWithCap ==
    [][ risk_config' # risk_config
        => /\ risk_result'.op \in RiskAdminOps
           /\ risk_result'.status = "ok"
           /\ risk_result'.sender = risk_admin_cap_owner ]_vars

\* C6 witness: after the administrator changed the parameters, a sender that
\* does not hold the cap tried an admin operation and was turned away.
C6_Witness ==
    /\ risk_result.op \in RiskAdminOps
    /\ risk_result.status = "rejected"
    /\ risk_result.sender # risk_admin_cap_owner
    /\ risk_config.max_ltv_bps # DEFAULT_MAX_LTV_BPS

\* C7: withdraw, record_borrow and record_hedge_position sent by anyone but
\* the vault's owner abort with EUnauthorized and leave the vault (collateral,
\* debt, hedge size, pause flag, last_updated) unchanged and emit no event.
C7_NonOwnerAborts ==
    [][ \A id \in VaultIds :
          (/\ clock_ms' = clock_ms
           /\ vault_result'.op \in OwnerOnlyOps
           /\ vault_result'.vault_id = id
           /\ vault_result'.sender # vaults[id].owner)
          => /\ vault_result'.status = "abort"
             /\ vault_result'.code = EUnauthorized
             /\ vaults' = vaults
             /\ vault_events' = << >> ]_vars

\* C7 witness: a non-owner asked to withdraw collateral that the unpaused
\* vault holds and got EUnauthorized.
C7_Witness ==
    \E id \in VaultIds :
        /\ vault_result.op = "withdraw"
        /\ vault_result.vault_id = id
        /\ vault_result.sender # vaults[id].owner
        /\ vault_result.code = EUnauthorized
        /\ vault_result.amount > 0
        /\ vault_result.amount <= vaults[id].collateral_balance
        /\ ~vaults[id].is_paused

\* C8 as stated: while the vault is paused, deposit, withdraw, record_borrow
\* and record_hedge_position all abort with EVaultPaused.
C8_PausedAbortsWithPausedCode ==
    \A id \in VaultIds :
        (/\ vaults[id].is_paused
         /\ vault_result.vault_id = id
         /\ vault_result.op \in PauseGatedOps)
        => (vault_result.status = "abort" /\ vault_result.code = EVaultPaused)

\* C8 amended: while the vault is paused the four operations abort and change
\* nothing, with EVaultPaused for deposit and for calls by the owner and
\* with EUnauthorized for withdraw, record_borrow and record_hedge_position
\* sent by a non-owner; and the pause flag changes only in a pause_vault or
\* unpause_vault sent by the holder of the VaultAdminCap.
C8_PausedVaultRejects ==
    [][ \A id \in VaultIds :
          /\ (/\ clock_ms' = clock_ms
              /\ vaults[id].is_paused
              /\ vault_result'.vault_id = id
              /\ vault_result'.op \in PauseGatedOps)
             => /\ vault_result'.status = "abort"
                /\ vault_result'.code =
                       IF /\ vault_result'.op \in OwnerOnlyOps
                          /\ vault_result'.sender # vaults[id].owner
                         THEN EUnauthorized
                         ELSE EVaultPaused
                /\ vaults' = vaults
                /\ vault_events' = << >>
          /\ vaults'[id].is_paused # vaults[id].is_paused
             => /\ vault_result'.op \in {"pause_vault", "unpause_vault"}
                /\ vault_result'.status = "ok"
                /\ vault_result'.sender = vault_admin_cap_owner ]_vars

\* C8 witness: the owner, who does not hold the VaultAdminCap, called
\* record_borrow on the paused vault and got EVaultPaused.
C8_Witness ==
    \E id \in VaultIds :
        /\ vaults[id].is_paused
        /\ vault_result.op = "record_borrow"
        /\ vault_result.vault_id = id
        /\ vault_result.sender = vaults[id].owner
        /\ vault_result.code = EVaultPaused
        /\ vaults[id].owner # vault_admin_cap_owner
        /\ vaults[id].collateral_balance > 0

\* what the caller of a boolean validator sees
Accepted(r) == r.status = "return" /\ r.value

ReturnedFalse(r) == r.status = "return" /\ ~r.value

\* C9: validate_ltv, system not paused: for collateral_value > 0 it returns
\* true exactly when floor(borrow_value * 10000 / collateral_value) <=
\* max_ltv_bps; for collateral_value = 0 it returns true when borrow_value = 0
\* and false for every borrow_value > 0.
C9_ValidateLtvExact ==
    (risk_result.op = "validate_ltv" /\ ~risk_config.is_system_paused)
    => LET c == risk_result.args[1]
           b == risk_result.args[2]
       IN  IF c > 0
             THEN Accepted(risk_result)
                      <=> FloorBps(b, c) <= risk_config.max_ltv_bps
             ELSE IF b = 0 THEN Accepted(risk_result)
                           ELSE ReturnedFalse(risk_result)

\* C9, supporting: the statement of C9 holds of every call in which
\* borrow_value * 10000 fits a u64.
C9_ExactWithoutOverflow ==
    (/\ risk_result.op = "validate_ltv"
     /\ ~risk_config.is_system_paused
     /\ ~MulOverflows(risk_result.args[2], BPS_DENOMINATOR))
    => LET c == risk_result.args[1]
           b == risk_result.args[2]
       IN  /\ risk_result.status = "return"
           /\ risk_result.value =
                  IF c > 0 THEN FloorBps(b, c) <= risk_config.max_ltv_bps
                           ELSE b = 0

\* the rejection rule of C10 for quote (p, c, t) at time now
PriceRuleRejects(config, p, c, t, now) ==
    \/ now > t + config.max_price_age
    \/ p > 0 /\ FloorBps(c, p) > config.max_confidence_ratio_bps

\* C10: validate_price_data, system not paused, rejects exactly when
\* now > publish_time + max_price_age, or price > 0 and
\* floor(confidence * 10000 / price) > max_confidence_ratio_bps (so equality
\* of now and publish_time + max_price_age is accepted and price = 0 skips
\* the confidence check).
C10_ValidatePriceExact ==
    (risk_result.op = "validate_price_data" /\ ~risk_config.is_system_paused)
    => (Accepted(risk_result)
            <=> ~PriceRuleRejects(risk_config, risk_result.args[1],
                     risk_result.args[2], risk_result.args[3], risk_result.now))

\* C10, supporting: the statement of C10 holds of every call in which neither
\* publish_time + max_price_age nor confidence * 10000 overflows a u64.
C10_ExactWithoutOverflow ==
    (/\ risk_result.op = "validate_price_data"
     /\ ~risk_config.is_system_paused
     /\ ~AddOverflows(risk_result.args[3], risk_config.max_price_age)
     /\ ~MulOverflows(risk_result.args[2], BPS_DENOMINATOR))
    => /\ risk_result.status = "return"
       /\ risk_result.value =
              ~PriceRuleRejects(risk_config, risk_result.args[1],
                   risk_result.args[2], risk_result.args[3], risk_result.now)


\* |a - b|
AbsDiff(a, b) == IF a >= b THEN a - b ELSE b - a

\* C11: validate_slippage, system not paused: for expected > 0 it accepts
\* exactly when floor(|actual - expected| * 10000 / expected) <=
\* max_slippage_bps, with the same answer for expected + d and expected - d;
\* for expected = 0 it accepts only when actual = 0.
C11_ValidateSlippageExact ==
    (risk_result.op = "validate_slippage" /\ ~risk_config.is_system_paused)
    => LET e == risk_result.args[1]
           a == risk_result.args[2]
           mirror == 2 * e - a
       IN  IF e > 0
             THEN /\ Accepted(risk_result)
                        <=> FloorBps(AbsDiff(a, e), e) <= risk_config.max_slippage_bps
                  /\ (e <= 200000 /\ mirror >= 0)
                        => (Accepted(risk_result)
                              <=> Accepted(validate_slippage(risk_config, e, mirror,
                                                             risk_result.now)))
             ELSE Accepted(risk_result) => a = 0

\* C11, supporting: the statement of C11 holds of every call in which
\* |actual - expected| * 10000 fits a u64, and expected = 0 with actual # 0
\* returns false.
C11_ExactWithoutOverflow ==
    (/\ risk_result.op = "validate_slippage"
     /\ ~risk_config.is_system_paused
     /\ ~MulOverflows(AbsDiff(risk_result.args[2], risk_result.args[1]),
                      BPS_DENOMINATOR))
    => LET e == risk_result.args[1]
           a == risk_result.args[2]
           mirror == 2 * e - a
       IN  /\ risk_result.status = "return"
           /\ risk_result.value =
                  IF e > 0
                    THEN FloorBps(AbsDiff(a, e), e) <= risk_config.max_slippage_bps
                    ELSE a = 0
           /\ (e > 0 /\ e <= 200000 /\ mirror >= 0)
                 => risk_result.value
                        = validate_slippage(risk_config, e, mirror,
                                            risk_result.now).value

\* C12: validate_position_size, system not paused, returns false exactly when
\* size > max_position_size, and true for size = max_position_size.
C12_PositionSizeExact ==
    (risk_result.op = "validate_position_size" /\ ~risk_config.is_system_paused)
    => /\ risk_result.status = "return"
       /\ risk_result.value
              = ~(risk_result.args[1] > risk_config.max_position_size)

\* C12 witness: a position of exactly max_position_size was accepted.
C12_Witness ==
    /\ risk_result.op = "validate_position_size"
    /\ ~risk_config.is_system_paused
    /\ risk_result.args[1] = risk_config.max_position_size
    /\ Accepted(risk_result)

\* abort codes with which an assert_* variant reports a failed check
CheckFailureCodes ==
    {RISK_ELTVExceeded, EPriceConfidenceTooWide, EPriceStale, ESlippageExceeded}

\* the latest validator call rejected its input
Rejected(r) ==
    ReturnedFalse(r) \/ (r.status = "abort" /\ r.code \in CheckFailureCodes)

\* C13: every rejection by a RiskEngine check, boolean or abort variant,
\* emits exactly one RiskCheckFailedEvent, and an accepted check emits none.
C13_RejectionEmitsOneEvent ==
    (risk_result.op \in ValidatorOps /\ ~risk_config.is_system_paused)
    => /\ Rejected(risk_result)
            => /\ Len(risk_events) = 1
               /\ risk_events[1].type = "RiskCheckFailed"
       /\ (Accepted(risk_result) \/ risk_result.status = "ok")
            => risk_events = << >>

\* C13, supporting: a boolean validator that returns false after computing a
\* ratio or comparing a size emits exactly one RiskCheckFailedEvent, and no
\* accepted check emits any.
C13_EventOnComputedRejection ==
    (risk_result.op \in ValidatorOps /\ ~risk_config.is_system_paused)
    => /\ (/\ ReturnedFalse(risk_result)
           /\ ~(risk_result.op = "validate_ltv" /\ risk_result.args[1] = 0)
           /\ ~(risk_result.op = "validate_slippage" /\ risk_result.args[1] = 0))
            => /\ Len(risk_events) = 1
               /\ risk_events[1].type = "RiskCheckFailed"
       /\ (Accepted(risk_result) \/ risk_result.status = "ok")
            => risk_events = << >>

\* the five thresholds of a RiskConfig
Thresholds(config) ==
    << config.max_ltv_bps, config.max_price_age, config.max_confidence_ratio_bps,
       config.max_slippage_bps, config.max_position_size >>

\* every boolean validator gives, for every input offered and at time now,
\* the same outcome under c1 as under c2
SameValidatorResults(c1, c2, now) ==
    /\ \A c \in CollateralValues, b \in BorrowValues :
           validate_ltv(c1, c, b, now) = validate_ltv(c2, c, b, now)
    /\ \A p \in Prices, c \in Confidences, t \in PublishTimes :
           validate_price_data(c1, p, c, t, now)
               = validate_price_data(c2, p, c, t, now)
    /\ \A q \in SlippageQuotes :
           validate_slippage(c1, q[1], q[2], now)
               = validate_slippage(c2, q[1], q[2], now)
    /\ \A p \in PositionSizes :
           validate_position_size(c1, p, now) = validate_position_size(c2, p, now)

PlannedPcs == {"step1", "step2", "step4", "built", "returned", "executed", "reverted"}

\* positions of the builder at which it has returned a transaction
ReturnedPcs == {"returned", "executed", "reverted"}

\* the kinds of the commands of a transaction, in order
Kinds(cmds) == [i \in 1..Len(cmds) |-> cmds[i].cmd]

HasCmd(cmds, kind) == \E i \in 1..Len(cmds) : cmds[i].cmd = kind

\* C15: when the derived hedge size is below the venue's minimum order size
\* the whole plan is rejected, and a returned transaction that locks
\* collateral or draws debt carries a hedge order of the full derived size.
C15_NoPlanWithoutFullHedge ==
    (/\ orch.pc \in ReturnedPcs
     /\ HasCmd(returned_tx, "deposit_collateral") \/ HasCmd(returned_tx, "borrow_usdc"))
    => /\ orch.hedgeSize >= MIN_ORDER_SIZE
       /\ HasCmd(returned_tx, "place_limit_order")
       /\ AmountOf(returned_tx, "place_limit_order") = orch.hedgeSize

\* C15, supporting: with the pool configured, a hedge size below the minimum
\* order size makes the builder throw before it returns anything.
C15_ConfiguredPoolRejectsSmallHedge ==
    (pool_configured /\ orch.pc \in ReturnedPcs)
    => orch.hedgeSize >= MIN_ORDER_SIZE

\* C16: every returned transaction holds the four steps in the order price
\* attestation, collateral lock, debt draw, hedge order.
C16_ReturnedTxHasFourSteps ==
    orch.pc \in ReturnedPcs
    => Kinds(returned_tx) = << "oracle_price_update", "deposit_collateral",
                               "borrow_usdc", "place_limit_order" >>

\* C17: no plan is composed when its projected LTV exceeds max_ltv_bps or its
\* hedge size exceeds max_position_size (1000 SUI).
C17_PlanWithinRiskLimits ==
    orch.pc \in PlannedPcs
    => /\ orch.targetLTV * 100 <= DEFAULT_MAX_LTV_BPS
       /\ orch.hedgeSize <= 1000 * SUI_UNIT

\* C18: a plan is derived only from an oracle quote: when the oracle fetch
\* failed there is no plan and no transaction.
C18_NoPlanWithoutOracleQuote ==
    orch.pc \in PlannedPcs => orch.fault # "price"

\* C18, supporting: a plan is never derived from a quote whose confidence
\* interval is wider than 1% of the price.
C18_PlanFromTightQuote ==
    orch.pc \in PlannedPcs
    => orch.priceData.confidence * 100 <= orch.priceData.price

C20_LimitPriceOnCorrectSide ==
    (/\ deepbook_result.op \in {"calculateHedgePrice", "calculateHedgeOrderParams"}
     /\ deepbook_result.marketPrice > 0
     /\ deepbook_result.slippageBps >= 0
     /\ deepbook_result.slippageBps < 10000)
    => LET p == deepbook_result.marketPrice
           bps == deepbook_result.slippageBps
           limit == deepbook_result.limitPrice
       IN  /\ deepbook_result.side \in {"sell", "buy"}
           /\ deepbook_result.side = "sell"
                => /\ limit = p * (10000 - bps)
                   /\ limit <= p * 10000
                   /\ limit > 0
           /\ deepbook_result.side = "buy"
                => /\ limit = p * (10000 + bps)
                   /\ limit >= p * 10000

\* C20 witness: calculateHedgePrice priced a buy (cover) leg with a slippage
\* above zero, strictly above the market price.
C20_Witness ==
    /\ deepbook_result.op = "calculateHedgePrice"
    /\ deepbook_result.side = "buy"
    /\ deepbook_result.slippageBps > 0
    /\ deepbook_result.limitPrice > deepbook_result.marketPrice * 10000

\* C21: a successful record_hedge_position with is_open = TRUE adds size to
\* hedge_position_size; with is_open = FALSE it sets hedge_position_size to
\* max(0, hedge_position_size - size), and the owner's close on an unpaused
\* vault never aborts, whatever the size; collateral_balance and
\* borrowed_amount are unchanged in both cases.
C21_RecordHedgeArithmetic ==
    [][ \A id \in VaultIds :
          (/\ clock_ms' = clock_ms
           /\ vault_result'.op = "record_hedge_position"
           /\ vault_result'.vault_id = id)
          => LET v == vaults[id]
                 w == vaults'[id]
                 size == vault_result'.amount
             IN  /\ (/\ ~vault_result'.is_open
                     /\ vault_result'.sender = v.owner
                     /\ ~v.is_paused)
                      => vault_result'.status = "ok"
                 /\ vault_result'.status = "ok"
                      => /\ w.hedge_position_size =
                               IF vault_result'.is_open
                                 THEN v.hedge_position_size + size
                               ELSE IF v.hedge_position_size - size > 0
                                 THEN v.hedge_position_size - size
                               ELSE 0
                         /\ w.collateral_balance = v.collateral_balance
                         /\ w.borrowed_amount = v.borrowed_amount ]_vars

\* C21 witness: a close for more than any position the vault can hold
\* succeeded on a vault with collateral and debt, and left no hedge.
C21_Witness ==
    \E id \in VaultIds :
        /\ vault_result.op = "record_hedge_position"
        /\ vault_result.vault_id = id
        /\ vault_result.status = "ok"
        /\ ~vault_result.is_open
        /\ vault_result.amount > MaxHedge
        /\ vaults[id].hedge_position_size = 0
        /\ vaults[id].borrowed_amount > 0

\* C22 as stated: a deposit of amount 0 aborts with EDepositAmountZero.
C22_ZeroDepositAbortsWithZeroCode ==
    (vault_result.op = "deposit" /\ vault_result.amount = 0)
    => (vault_result.status = "abort" /\ vault_result.code = EDepositAmountZero)

\* C22 amended: a deposit of amount 0 aborts and changes nothing, with
\* EDepositAmountZero on an unpaused vault and EVaultPaused on a paused one;
\* a successful deposit has amount > 0, increases collateral_balance by
\* exactly amount and leaves borrowed_amount, hedge_position_size, owner and
\* the pause flag unchanged.
C22_DepositFrame ==
    [][ \A id \in VaultIds :
          (/\ clock_ms' = clock_ms
           /\ vault_result'.op = "deposit"
           /\ vault_result'.vault_id = id)
          => LET v == vaults[id]
                 w == vaults'[id]
             IN  /\ vault_result'.amount = 0
                      => /\ vault_result'.status = "abort"
                         /\ vault_result'.code =
                                IF v.is_paused THEN EVaultPaused
                                               ELSE EDepositAmountZero
                         /\ vaults' = vaults
                         /\ vault_events' = << >>
                 /\ vault_result'.status = "ok"
                      => /\ vault_result'.amount > 0
                         /\ w.collateral_balance
                                = v.collateral_balance + vault_result'.amount
                         /\ w.borrowed_amount = v.borrowed_amount
                         /\ w.hedge_position_size = v.hedge_position_size
                         /\ w.owner = v.owner
                         /\ w.is_paused = v.is_paused ]_vars

\* C22 witness: a deposit of 0 into an unpaused vault that holds collateral,
\* debt and a hedge aborted with EDepositAmountZero.
C22_Witness ==
    \E id \in VaultIds :
        /\ vault_result.op = "deposit"
        /\ vault_result.vault_id = id
        /\ vault_result.amount = 0
        /\ vault_result.code = EDepositAmountZero
        /\ ~vaults[id].is_paused
        /\ vaults[id].collateral_balance > 0
        /\ vaults[id].borrowed_amount > 0
        /\ vaults[id].hedge_position_size > 0

\* C23 as stated: a withdraw of more than collateral_balance aborts with
\* EInsufficientBalance.  (An aborted call leaves the vault unchanged, so the
\* balance read after the call is the balance the call saw.)
C23_OverdrawAbortsWithBalanceCode ==
    \A id \in VaultIds :
        (/\ vault_result.op = "withdraw"
         /\ vault_result.vault_id = id
         /\ vault_result.status = "abort"
         /\ vault_result.amount > vaults[id].collateral_balance)
        => vault_result.code = EInsufficientBalance

\* C23 amended: collateral_balance never goes below zero; a withdraw of more
\* than collateral_balance aborts and leaves the vault unchanged, with
\* EInsufficientBalance when the caller is the owner and the vault is not
\* paused, EUnauthorized for another caller and EVaultPaused for the owner of
\* a paused vault; a successful withdraw decreases collateral_balance by
\* exactly amount.
C23_WithdrawBalance ==
    [][ \A id \in VaultIds :
          /\ vaults'[id].collateral_balance >= 0
          /\ (/\ clock_ms' = clock_ms
              /\ vault_result'.op = "withdraw"
              /\ vault_result'.vault_id = id)
             => LET v == vaults[id]
                    w == vaults'[id]
                IN  /\ vault_result'.amount > v.collateral_balance
                         => /\ vault_result'.status = "abort"
                            /\ vault_result'.code =
                                   IF vault_result'.sender # v.owner THEN EUnauthorized
                                   ELSE IF v.is_paused THEN EVaultPaused
                                   ELSE EInsufficientBalance
                            /\ vaults' = vaults
                    /\ vault_result'.status = "ok"
                         => /\ vault_result'.amount <= v.collateral_balance
                            /\ w.collateral_balance
                                   = v.collateral_balance - vault_result'.amount ]_vars

\* C23 witness: the owner's withdraw of more than the non-zero balance of an
\* unpaused vault aborted with EInsufficientBalance.
C23_Witness ==
    \E id \in VaultIds :
        /\ vault_result.op = "withdraw"
        /\ vault_result.vault_id = id
        /\ vault_result.sender = vaults[id].owner
        /\ ~vaults[id].is_paused
        /\ vaults[id].collateral_balance > 0
        /\ vault_result.amount > vaults[id].collateral_balance
        /\ vault_result.code = EInsufficientBalance

VaultMutationOps ==
    {"deposit", "withdraw", "record_borrow", "record_hedge_position",
     "pause_vault", "unpause_vault"}

EventTypeOf(op) ==
    CASE op = "deposit" -> "Deposit"
      [] op = "withdraw" -> "Withdraw"
      [] op = "record_borrow" -> "Borrow"
      [] op = "record_hedge_position" -> "HedgePosition"
      [] OTHER -> "none"

\* the transaction of the latest call emitted exactly one event of the type
\* of its operation, carrying vault id, actor, amount and the vault's new
\* last_updated as timestamp
OneTypedEvent(id) ==
    /\ Len(vault_events) = 1
    /\ vault_events[1].type = EventTypeOf(vault_result.op)
    /\ vault_events[1].vault_id = id
    /\ vault_events[1].actor = vault_result.sender
    /\ vault_events[1].amount = vault_result.amount
    /\ vault_events[1].timestamp = vaults[id].last_updated

\* C24: every successful vault mutation (deposit, withdraw, record_borrow,
\* record_hedge_position, pause_vault, unpause_vault) emits exactly one typed
\* event carrying vault id, actor, amount and timestamp, and an operation that
\* did not succeed emits nothing.
C24_MutationEmitsOneTypedEvent ==
    \A id \in VaultIds :
        (vault_result.op \in VaultMutationOps /\ vault_result.vault_id = id)
        => IF vault_result.status = "ok"
             THEN OneTypedEvent(id)
             ELSE vault_events = << >>

\* C24, the part that holds: deposit, withdraw and record_borrow emit exactly
\* one event with vault id, actor, amount and timestamp when they succeed;
\* HedgePositionEvent carries vault id, position_size, is_open and timestamp;
\* every successful mutation, pause and unpause included, sets last_updated
\* to the clock's second; an operation that did not succeed emits nothing.
C24_EventsOfCoinOperations ==
    [][ \A id \in VaultIds :
          (/\ clock_ms' = clock_ms
           /\ vault_result'.op \in VaultMutationOps
           /\ vault_result'.vault_id = id)
          => IF vault_result'.status = "ok"
               THEN /\ vaults'[id].last_updated = Now
                    /\ vault_result'.op \in {"deposit", "withdraw", "record_borrow"}
                         => OneTypedEvent(id)'
                    /\ vault_result'.op = "record_hedge_position"
                         => /\ Len(vault_events') = 1
                            /\ vault_events'[1].type = "HedgePosition"
                            /\ vault_events'[1].vault_id = id
                            /\ vault_events'[1].amount = vault_result'.amount
                            /\ vault_events'[1].is_open = vault_result'.is_open
                            /\ vault_events'[1].timestamp = Now
               ELSE vault_events' = << >> /\ vaults' = vaults ]_vars

\* C25: under the non-decreasing clock, no step decreases a vault's
\* last_updated, whichever of create_vault, deposit, withdraw, record_borrow,
\* record_hedge_position, pause_vault or unpause_vault it is, and
\* last_updated >= created_at in every state.
C25_LastUpdatedMonotone ==
    [][ \A id \in VaultIds :
          /\ vaults'[id].last_updated >= vaults[id].last_updated
          /\ vaults'[id].last_updated >= vaults'[id].created_at
          /\ (vaults[id].exists => vaults'[id].created_at = vaults[id].created_at) ]_vars

\* C25 witness: a vault created after the clock's first second was paused at
\* a later second, so last_updated has moved past created_at.
C25_Witness ==
    \E id \in VaultIds :
        /\ vault_result.op = "pause_vault"
        /\ vault_result.status = "ok"
        /\ vault_result.vault_id = id
        /\ vaults[id].created_at > 0
        /\ vaults[id].last_updated > vaults[id].created_at
        /\ vaults[id].collateral_balance > 0

FloatLeq(a, b) ==
    IF a.s >= b.s THEN a.m <= b.m * Pow2(a.s - b.s)
                  ELSE a.m * Pow2(b.s - a.s) <= b.m

\* 0 <= a - b < 10^-priceDecimals
WithinOneUnitBelow(a, b) ==
    LET S == IF a.s >= b.s THEN a.s ELSE b.s
        diff == a.m * Pow2(S - a.s) - b.m * Pow2(S - b.s)
    IN  diff >= 0 /\ diff * Pow10(priceDecimals) < Pow2(S)

\* C27: priceFromDeepBookFormat(priceToDeepBookFormat(p)) is <= p, differs
\* from p by less than 10^-priceDecimals, and is p itself when p is a price
\* written with priceDecimals decimals.
C27_RoundTripRecoversPrice ==
    deepbook_result.op = "priceFromDeepBookFormat"
    => /\ FloatLeq(deepbook_result.backPrice, deepbook_result.price)
       /\ WithinOneUnitBelow(deepbook_result.price, deepbook_result.backPrice)
       /\ deepbook_result.literal % 10 = 0
            => deepbook_result.backPrice = deepbook_result.price

\* C27, the part that holds: the round trip never exceeds p and stays within
\* one unit of the venue's precision below it, and for a price written with
\* priceDecimals decimals, k / 10^priceDecimals, the venue-format integer is
\* k or k - 1.
C27_RoundTripWithinPrecision ==
    deepbook_result.op = "priceFromDeepBookFormat"
    => /\ FloatLeq(deepbook_result.backPrice, deepbook_result.price)
       /\ WithinOneUnitBelow(deepbook_result.price, deepbook_result.backPrice)
       /\ deepbook_result.literal % 10 = 0
            => deepbook_result.dbPrice \in
                   { deepbook_result.literal \div 10,
                     deepbook_result.literal \div 10 - 1 }

\* the code with which each assert_* variant reports a breach of its own check
OwnCheckCodes(op) ==
    CASE op = "assert_ltv_safe" -> {RISK_ELTVExceeded}
      [] op = "assert_price_valid" -> {EPriceStale, EPriceConfidenceTooWide}
      [] op = "assert_slippage_acceptable" -> {ESlippageExceeded}
      [] OTHER -> {}

\* C28: a RiskEngine call that aborts with a code reports ESystemPaused
\* whenever the system is paused, never a validation code, and reports the code
\* of its own check (LTV, stale price, confidence, slippage) when the system
\* is not paused.
C28_CodeTellsHaltedFromBreach ==
    (risk_result.op \in ValidatorOps /\ risk_result.status = "abort")
    => IF risk_config.is_system_paused
         THEN risk_result.code = ESystemPaused
         ELSE risk_result.code \in OwnCheckCodes(risk_result.op)

\* C28, the part that holds: the statement of C28 for every RiskEngine call
\* other than assert_price_valid, and for assert_price_valid while the system
\* is not paused.
C28_CodesOfPauseCheckedCalls ==
    (/\ risk_result.op \in ValidatorOps
     /\ risk_result.status = "abort"
     /\ ~(risk_result.op = "assert_price_valid" /\ risk_config.is_system_paused))
    => IF risk_config.is_system_paused
         THEN risk_result.code = ESystemPaused
         ELSE risk_result.code \in OwnCheckCodes(risk_result.op)

\* RiskEngine.validate_ltv, evaluated with the current RiskConfig, accepts the
\* position (collateral, debt)
RiskEngineAccepts(collateral, debt) ==
    LET r == validate_ltv(risk_config, collateral, debt, Now)
    IN  r.status = "return" /\ r.value

\* C29: the owner's record_borrow on an unpaused vault is accepted exactly
\* when validate_ltv, evaluated with the current RiskConfig, accepts the
\* resulting position (collateral_balance, borrowed_amount + amount), whatever
\* update_risk_params has set max_ltv_bps to, and no vault mutation succeeds
\* while is_system_paused is true.
C29_VaultGateIsRiskEngineGate ==
    [][ \A id \in VaultIds :
          (/\ clock_ms' = clock_ms
           /\ UNCHANGED risk_vars
           /\ vault_result'.op \in VaultMutationOps
           /\ vault_result'.vault_id = id)
          => LET v == vaults[id] IN
             /\ (/\ vault_result'.op = "record_borrow"
                 /\ vault_result'.sender = v.owner
                 /\ ~v.is_paused)
                => (vault_result'.status = "ok"
                      <=> RiskEngineAccepts(v.collateral_balance,
                              v.borrowed_amount + vault_result'.amount))
             /\ vault_result'.status = "ok" => ~risk_config.is_system_paused ]_vars

\* C29, the part that holds: while the RiskConfig carries the default
\* max_ltv_bps and the system is not paused, the owner's first record_borrow
\* on an unpaused vault that holds collateral is accepted exactly when
\* validate_ltv accepts the resulting position.
C29_FirstBorrowAtDefaultLimit ==
    [][ \A id \in VaultIds :
          (/\ clock_ms' = clock_ms
           /\ vault_result'.op = "record_borrow"
           /\ UNCHANGED risk_vars
           /\ vault_result'.vault_id = id
           /\ vault_result'.sender = vaults[id].owner
           /\ ~vaults[id].is_paused
           /\ vaults[id].borrowed_amount = 0
           /\ vaults[id].collateral_balance > 0
           /\ risk_config.max_ltv_bps = MAX_LTV_BPS
           /\ ~risk_config.is_system_paused)
          => (vault_result'.status = "ok"
                <=> RiskEngineAccepts(vaults[id].collateral_balance,
                        vault_result'.amount)) ]_vars

\* get_current_ltv_bps reports a value within the RiskConfig's max_ltv_bps
ReportsWithinLimit(v) ==
    /\ get_current_ltv_bps(v).status = "return"
    /\ get_current_ltv_bps(v).value <= risk_config.max_ltv_bps

\* C30: in every reachable vault state get_current_ltv_bps returns
\* floor(borrowed_amount * 10000 / collateral_balance) when collateral > 0, and
\* it reports a value <= max_ltv_bps exactly when
\* validate_ltv(collateral_balance, borrowed_amount) accepts, the empty vault
\* included.
C30_CurrentLtvFollowsRiskRule ==
    \A id \in VaultIds :
        vaults[id].exists
        => LET v == vaults[id] IN
           /\ v.collateral_balance > 0
                => /\ get_current_ltv_bps(v).status = "return"
                   /\ get_current_ltv_bps(v).value
                          = FloorBps(v.borrowed_amount, v.collateral_balance)
           /\ ReportsWithinLimit(v)
                <=> RiskEngineAccepts(v.collateral_balance, v.borrowed_amount)

\* C30, the part that holds: for every reachable vault that holds collateral
\* get_current_ltv_bps returns floor(borrowed_amount * 10000 /
\* collateral_balance) and, while the system is not paused, is <= the current
\* max_ltv_bps exactly when validate_ltv accepts; for a vault without
\* collateral it returns 10000.
C30_CurrentLtvWithCollateral ==
    \A id \in VaultIds :
        vaults[id].exists
        => LET v == vaults[id] IN
           IF v.collateral_balance > 0
             THEN /\ get_current_ltv_bps(v).status = "return"
                  /\ get_current_ltv_bps(v).value
                         = FloorBps(v.borrowed_amount, v.collateral_balance)
                  /\ ~risk_config.is_system_paused
                       => (ReportsWithinLimit(v)
                             <=> RiskEngineAccepts(v.collateral_balance,
                                                   v.borrowed_amount))
             ELSE get_current_ltv_bps(v).value = BPS_DENOMINATOR

\* the outcome the boolean validator of an assert_* variant has on the
\* arguments and at the second of the latest call, under the current RiskConfig
ValidatorOutcomeOf(r) ==
    CASE r.op = "assert_ltv_safe" ->
           validate_ltv(risk_config, r.args[1], r.args[2], r.now)
      [] r.op = "assert_price_valid" ->
           validate_price_data(risk_config, r.args[1], r.args[2], r.args[3], r.now)
      [] r.op = "assert_slippage_acceptable" ->
           validate_slippage(risk_config, r.args[1], r.args[2], r.now)

AssertOps == {"assert_ltv_safe", "assert_price_valid", "assert_slippage_acceptable"}

\* the call ended in an abort, with a code or arithmetic
Aborted(r) == r.status \in {"abort", "arith"}

\* C31: assert_ltv_safe, assert_price_valid and assert_slippage_acceptable
\* abort exactly when validate_ltv, validate_price_data and validate_slippage
\* do not return true on the same input and RiskConfig, and return normally
\* otherwise.
C31_AssertIsAbortFormOfValidator ==
    risk_result.op \in AssertOps
    => LET v == ValidatorOutcomeOf(risk_result)
       IN  /\ Aborted(risk_result) <=> ~(v.status = "return" /\ v.value)
           /\ ~Aborted(risk_result) => risk_result.status = "ok"

\* C31, the part that holds: the statement of C31 for assert_ltv_safe and
\* assert_slippage_acceptable under every RiskConfig, and for
\* assert_price_valid while the system is not paused.
C31_AbortFormOutsidePausedPriceCheck ==
    (/\ risk_result.op \in AssertOps
     /\ ~(risk_result.op = "assert_price_valid" /\ risk_config.is_system_paused))
    => LET v == ValidatorOutcomeOf(risk_result)
       IN  /\ Aborted(risk_result) <=> ~(v.status = "return" /\ v.value)
           /\ ~Aborted(risk_result) => risk_result.status = "ok"

BooleanValidatorOps ==
    {"validate_ltv", "validate_price_data", "validate_slippage",
     "validate_position_size"}

\* C32: while the system is not paused, validate_ltv, validate_price_data,
\* validate_slippage and validate_position_size return a boolean for every
\* u64 input, never an abort, also where value * 10000 or
\* publish_time + max_price_age exceeds 2^64 - 1.
C32_ValidatorsReturnBoolean ==
    (risk_result.op \in BooleanValidatorOps /\ ~risk_config.is_system_paused)
    => risk_result.status = "return"

\* the u64 computation of the latest validator call overflows: the product
\* with 10000 that the call evaluates, or publish_time + max_price_age
ComputationOverflows(r) ==
    CASE r.op = "validate_ltv" ->
           r.args[1] > 0 /\ MulOverflows(r.args[2], BPS_DENOMINATOR)
      [] r.op = "validate_price_data" ->
           \/ AddOverflows(r.args[3], risk_config.max_price_age)
           \/ /\ ~IsStale(r.now, r.args[3] + risk_config.max_price_age)
              /\ r.args[1] > 0
              /\ MulOverflows(r.args[2], BPS_DENOMINATOR)
      [] r.op = "validate_slippage" ->
           r.args[1] > 0 /\ MulOverflows(AbsDiff(r.args[1], r.args[2]), BPS_DENOMINATOR)
      [] OTHER -> FALSE

\* C32, the part that holds: while the system is not paused a boolean
\* validator aborts exactly when its u64 computation overflows, and the abort
\* is then an arithmetic one; validate_position_size always returns a boolean.
C32_AbortOnlyOnOverflow ==
    (risk_result.op \in BooleanValidatorOps /\ ~risk_config.is_system_paused)
    => /\ ComputationOverflows(risk_result) <=> risk_result.status = "arith"
       /\ ~ComputationOverflows(risk_result) <=> risk_result.status = "return"

UnitSucceeds == orch.pc = "returned" /\ orch'.pc = "executed"

\* C34: when the orchestrated unit succeeds, the vault's collateral_balance,
\* borrowed_amount and hedge_position_size have increased by the plan's
\* collateral amount, borrow amount and hedge size.
C34_VaultReflectsPlan ==
    [][ \A id \in VaultIds :
          (UnitSucceeds /\ vaults[id].exists)
          => /\ vaults'[id].collateral_balance
                    = vaults[id].collateral_balance + orch.suiAmount
             /\ vaults'[id].borrowed_amount
                    = vaults[id].borrowed_amount + orch.borrowAmount
             /\ vaults'[id].hedge_position_size
                    = vaults[id].hedge_position_size + orch.hedgeSize ]_vars

\* C34, what the unit does: a successful unit locks the plan's collateral and
\* draws the plan's debt at the lending venue, and it leaves every vault, the
\* RiskConfig and the vault events as they were: the returned transaction
\* holds no call of vault.move or risk_manager.move.
C34_UnitTouchesVenuesOnly ==
    [][ UnitSucceeds
        => /\ venue_position'.collateral = venue_position.collateral + orch.suiAmount
           /\ venue_position'.debt = venue_position.debt + orch.borrowAmount
           /\ \A i \in 1..Len(returned_tx) :
                  returned_tx[i].cmd \in {"oracle_price_update", "deposit_collateral",
                                          "borrow_usdc", "place_limit_order"}
           /\ UNCHANGED << vault_vars, risk_vars >> ]_vars

\* C35: create_vault yields a vault with owner = sender, collateral 0, debt
\* 0, hedge size 0, not paused and created_at = last_updated; afterwards no
\* step changes its owner or created_at, and no step deletes it.
C35_CreateVaultAndPersistence ==
    [][ \A id \in VaultIds :
          /\ (~vaults[id].exists /\ vaults'[id].exists)
                => /\ vault_result'.op = "create_vault"
                   /\ vault_result'.vault_id = id
                   /\ vaults'[id].owner = vault_result'.sender
                   /\ vaults'[id].collateral_balance = 0
                   /\ vaults'[id].borrowed_amount = 0
                   /\ vaults'[id].hedge_position_size = 0
                   /\ ~vaults'[id].is_paused
                   /\ vaults'[id].created_at = Now
                   /\ vaults'[id].last_updated = vaults'[id].created_at
          /\ vaults[id].exists
                => /\ vaults'[id].exists
                   /\ vaults'[id].owner = vaults[id].owner
                   /\ vaults'[id].created_at = vaults[id].created_at ]_vars

\* C35 witness: a vault created by alice after second 0 has been funded,
\* borrowed against, hedged and paused at a later second, and is still hers.
C35_Witness ==
    \E id \in VaultIds :
        /\ vaults[id].exists
        /\ vaults[id].owner = "alice"
        /\ vaults[id].created_at > 0
        /\ vaults[id].last_updated > vaults[id].created_at
        /\ vaults[id].collateral_balance > 0
        /\ vaults[id].borrowed_amount > 0
        /\ vaults[id].hedge_position_size > 0
        /\ vaults[id].is_paused

\* C36: no step reduces a vault's borrowed_amount, and a vault with
\* borrowed_amount > 0 keeps collateral_balance > 0: the owner's withdraw of
\* the full collateral aborts and changes nothing.
C36_DebtNeverDecreases ==
    [][ \A id \in VaultIds :
          /\ vaults'[id].borrowed_amount >= vaults[id].borrowed_amount
          /\ vaults[id].borrowed_amount > 0
                => /\ vaults[id].collateral_balance > 0
                   /\ vaults'[id].collateral_balance > 0
          /\ (/\ clock_ms' = clock_ms
              /\ vault_result'.op = "withdraw"
              /\ vault_result'.vault_id = id
              /\ vaults[id].borrowed_amount > 0
              /\ vault_result'.amount >= vaults[id].collateral_balance)
             => (vault_result'.status = "abort" /\ vaults' = vaults) ]_vars

\* C36 witness: the owner of an unpaused vault with debt tried to withdraw
\* exactly the whole collateral and the call aborted with ELTVExceeded.
C36_Witness ==
    \E id \in VaultIds :
        /\ vault_result.op = "withdraw"
        /\ vault_result.vault_id = id
        /\ vault_result.sender = vaults[id].owner
        /\ vault_result.status = "abort"
        /\ vault_result.code = ELTVExceeded
        /\ vault_result.amount = vaults[id].collateral_balance
        /\ vaults[id].borrowed_amount > 0

\* C37: a vault's collateral_balance changes only by a successful deposit,
\* which adds its amount whoever the depositor is, and by a successful
\* withdraw, which subtracts its amount and transfers exactly that amount to
\* the vault's owner and to nobody else; no other step moves collateral or
\* transfers a coin.  From the empty vault that create_vault builds, the
\* balance is therefore the sum of the deposits minus the sum of the
\* withdrawals in every reachable state.
C37_CollateralConservation ==
    [][ \A id \in VaultIds :
          LET change == vaults'[id].collateral_balance - vaults[id].collateral_balance
              called == clock_ms' = clock_ms /\ vault_result'.vault_id = id
                           /\ vault_result'.status = "ok"
          IN  /\ (~vaults[id].exists /\ vaults'[id].exists)
                    => vaults'[id].collateral_balance = 0
              /\ IF called /\ vault_result'.op = "deposit"
                   THEN change = vault_result'.amount /\ vault_transfers' = << >>
                 ELSE IF called /\ vault_result'.op = "withdraw"
                   THEN /\ change = 0 - vault_result'.amount
                        /\ vault_transfers' = << [to |-> vaults[id].owner,
                                                  amount |-> vault_result'.amount] >>
                 ELSE /\ change = 0
                      /\ clock_ms' = clock_ms => vault_transfers' = << >> ]_vars

\* C37 witness: the owner withdrew part of the collateral of the vault and
\* the withdrawn coin was transferred to the owner.
C37_Witness ==
    \E id \in VaultIds :
        /\ vault_result.op = "withdraw"
        /\ vault_result.status = "ok"
        /\ vault_result.vault_id = id
        /\ vault_result.amount > 0
        /\ vaults[id].owner = "alice"
        /\ vaults[id].collateral_balance > 0
        /\ vault_transfers = << [to |-> "alice", amount |-> vault_result.amount] >>

\* C38: a successful update_risk_params writes max_ltv_bps, max_price_age,
\* max_slippage_bps and max_position_size from its arguments and last_updated
\* from the clock, and leaves is_system_paused and max_confidence_ratio_bps
\* as they were; no step at all changes max_confidence_ratio_bps, which is
\* the bootstrap value 100 before and after every step.
C38_UpdateRiskParamsFrame ==
    [][ /\ risk_config.max_confidence_ratio_bps = DEFAULT_MAX_CONFIDENCE_RATIO_BPS
        /\ risk_config'.max_confidence_ratio_bps = DEFAULT_MAX_CONFIDENCE_RATIO_BPS
        /\ DEFAULT_MAX_CONFIDENCE_RATIO_BPS = 100
        /\ (/\ clock_ms' = clock_ms
            /\ risk_result'.op = "update_risk_params"
            /\ risk_result'.status = "ok")
           => /\ risk_config'.max_ltv_bps = risk_result'.args[1]
              /\ risk_config'.max_price_age = risk_result'.args[2]
              /\ risk_config'.max_slippage_bps = risk_result'.args[3]
              /\ risk_config'.max_position_size = risk_result'.args[4]
              /\ risk_config'.last_updated = clock_ms' \div 1000
              /\ risk_config'.is_system_paused = risk_config.is_system_paused
              /\ \A f \in DOMAIN risk_config \ {"max_ltv_bps", "max_price_age",
                        "max_slippage_bps", "max_position_size", "last_updated"} :
                    risk_config'[f] = risk_config[f] ]_vars

\* C38 witness: update_risk_params succeeded while the system was paused and
\* wrote limits that differ from the bootstrap ones; the system is still
\* paused and the confidence limit is still 100.
C38_Witness ==
    /\ risk_result.op = "update_risk_params"
    /\ risk_result.status = "ok"
    /\ risk_result.paused_before
    /\ risk_config.is_system_paused
    /\ risk_config.max_slippage_bps # DEFAULT_MAX_SLIPPAGE_BPS
    /\ risk_config.max_slippage_bps = risk_result.args[3]
    /\ risk_config.last_updated > 0
    /\ risk_config.max_confidence_ratio_bps = 100

\* both validators were last called on the same quote at the same clock value
SameQuoteChecked ==
    /\ oracle_result.op = "validatePriceData"
    /\ risk_result.op = "validate_price_data"
    /\ risk_result.args = << oracle_result.price, oracle_result.confidence,
                             oracle_result.publishTime >>
    /\ risk_result.now = oracle_result.now

\* C39 (as stated): on the same quote and clock value, with max age 60 s and
\* max confidence ratio 100 bps, OracleService.validatePriceData throws
\* exactly when risk_manager::validate_price_data returns false.
C39_ValidatorsAgree ==
    (/\ SameQuoteChecked
     /\ risk_config.max_price_age = ORACLE_MAX_PRICE_AGE
     /\ risk_config.max_confidence_ratio_bps = 100)
    => (oracle_result.threw <=> ReturnedFalse(risk_result))

\* C39 (what the code does): the validators agree on staleness and on every
\* quote with a positive price whose ratio is at most 1% or at least 1.01%;
\* they disagree, the SDK throwing and the contract returning true, exactly
\* on a fresh quote with price 0 and a positive confidence and on a fresh
\* quote whose ratio is above 1% and floors to 100 bps.
C39_AgreeOutsideZeroPriceAndFlooring ==
    SameQuoteChecked
    => LET p == oracle_result.price
           c == oracle_result.confidence
           fresh == oracle_result.now - oracle_result.publishTime <= ORACLE_MAX_PRICE_AGE
           special == \/ p = 0 /\ c > 0
                      \/ p > 0 /\ c * 100 > p /\ (c * BPS_DENOMINATOR) \div p = 100
       IN  IF fresh /\ special
             THEN oracle_result.threw /\ risk_result.status = "return" /\ risk_result.value
             ELSE oracle_result.threw <=> ReturnedFalse(risk_result)

\* C40 (as stated): scallopSDK.init() is called at most once on a builder,
\* also when several calls are made before the first initialisation has
\* completed.
C40_InitAtMostOnce == builder.scallop_inits <= 1

\* C40 (what the code does): the initialized flag becomes true only when a
\* call's awaited createScallopQuery returns, and once it is true no call
\* starts another initialisation; every call that arrives while the flag is
\* still false starts its own, so there are as many initialisations as
\* there were such calls.
C40_NoInitOnceFlagSet ==
    [][ /\ builder.initialized
           => (builder'.initialized /\ builder'.scallop_inits = builder.scallop_inits)
        /\ (~builder.initialized /\ builder'.initialized)
           => \E c \in Callers : /\ builder.calls[c].pc = "await_query"
                                 /\ builder'.calls[c].pc \in {"done", "body"}
        /\ \A c \in Callers :
              (builder.calls[c].pc = "idle" /\ builder'.calls[c].pc # "idle")
              => builder'.scallop_inits
                   = builder.scallop_inits + IF builder.initialized THEN 0 ELSE 1 ]_vars

========================================================================
